---- MODULE Spec2Model ----
(***************************************************************************)
(* The semantic-version engine of the repository (deno std semver/mod.ts   *)
(* as vendored under src/.deno/gen): grammar, SemVer, Comparator, Range    *)
(* and the query operations, as operators over strings, and a caller that  *)
(* applies them to inputs drawn from bounded sets.                         *)
(*                                                                         *)
(* JavaScript strings are TLA+ strings; a JavaScript value whose type the  *)
(* code inspects (typeof, instanceof, ===) is a record with a "type"       *)
(* field.  A call either returns (Ret) or throws (Throw).  The only        *)
(* whitespace character of the inputs is the space.  Every numeric field   *)
(* of the bounded inputs is far below Number.MAX_SAFE_INTEGER (2^53 - 1,   *)
(* more than TLC's integers hold), so the overflow tests of the SemVer     *)
(* constructor never fire here and are noted where they stand.             *)
(*                                                                         *)
(* A value the code names once and reads several times is an operator      *)
(* parameter here (the operator whose name ends in the step it continues), *)
(* so that each definition is evaluated where the code evaluates it.       *)
(***************************************************************************)
EXTENDS Integers, Sequences, FiniteSets, TLC

VARIABLES call, ret

vars == <<call, ret>>

(***************************************************************************)
(* Strings                                                                 *)
(***************************************************************************)
Ch(s, i) == SubSeq(s, i, i)

Digits == {"0", "1", "2", "3", "4", "5", "6", "7", "8", "9"}

Letters == {"a", "b", "c", "d", "e", "f", "g", "h", "i", "j", "k", "l", "m",
            "n", "o", "p", "q", "r", "s", "t", "u", "v", "w", "x", "y", "z",
            "A", "B", "C", "D", "E", "F", "G", "H", "I", "J", "K", "L", "M",
            "N", "O", "P", "Q", "R", "S", "T", "U", "V", "W", "X", "Y", "Z"}

\* The characters of the inputs in code-unit order (ASCII).
AsciiOrder == " *+-.0123456789<=>ABCDEFGHIJKLMNOPQRSTUVWXYZ^abcdefghijklmnopqrstuvwxyz|~"

charCodeAt == [c \in {Ch(AsciiOrder, i) : i \in 1..Len(AsciiOrder)} |->
                 CHOOSE i \in 1..Len(AsciiOrder) : Ch(AsciiOrder, i) = c]

Min(S) == CHOOSE i \in S : \A j \in S : i <= j

Max(S) == CHOOSE i \in S : \A j \in S : i >= j

firstOf(hits) == IF hits = {} THEN 0 ELSE Min(hits)

\* String.prototype.indexOf, 1-based; 0 when absent.
indexOf(s, sep) ==
  firstOf({i \in 1..(Len(s) - Len(sep) + 1) : SubSeq(s, i, i + Len(sep) - 1) = sep})

startsWith(s, p) == Len(s) >= Len(p) /\ SubSeq(s, 1, Len(p)) = p

RECURSIVE split(_, _)
splitAt(s, sep, i) ==
  IF i = 0 THEN <<s>>
  ELSE <<SubSeq(s, 1, i - 1)>> \o split(SubSeq(s, i + Len(sep), Len(s)), sep)

\* String.prototype.split with a string separator.
split(s, sep) == splitAt(s, sep, indexOf(s, sep))

RECURSIVE skipSpaces(_)
skipSpaces(s) == IF startsWith(s, " ") THEN skipSpaces(Tail(s)) ELSE s

RECURSIVE dropTrailingSpaces(_)
dropTrailingSpaces(s) ==
  IF Len(s) > 0 /\ Ch(s, Len(s)) = " " THEN dropTrailingSpaces(SubSeq(s, 1, Len(s) - 1)) ELSE s

\* String.prototype.trim.
trim(s) == dropTrailingSpaces(skipSpaces(s))

RECURSIVE splitWS(_)
splitWSAt(s, i) ==
  IF i = 0 THEN <<s>>
  ELSE <<SubSeq(s, 1, i - 1)>> \o splitWS(skipSpaces(SubSeq(s, i, Len(s))))

\* String.prototype.split(/\s+/).
splitWS(s) == splitWSAt(s, indexOf(s, " "))

RECURSIVE join(_, _)
\* Array.prototype.join over strings.
join(parts, sep) ==
  IF Len(parts) = 0 THEN ""
  ELSE IF Len(parts) = 1 THEN parts[1]
  ELSE parts[1] \o sep \o join(Tail(parts), sep)

\* s cut at the first sep: the text before it, and the text after it if any.
Undefined == <<>>
Some(s) == <<s>>
cutAt(s, i) ==
  IF i = 0 THEN [head |-> s, rest |-> Undefined]
  ELSE [head |-> SubSeq(s, 1, i - 1), rest |-> Some(SubSeq(s, i + 1, Len(s)))]
cut(s, sep) == cutAt(s, indexOf(s, sep))

digitValue(c) == charCodeAt[c] - charCodeAt["0"]

RECURSIVE ToNumber(_)
\* Unary plus on a string of decimal digits.
ToNumber(s) ==
  IF Len(s) = 0 THEN 0
  ELSE 10 * ToNumber(SubSeq(s, 1, Len(s) - 1)) + digitValue(Ch(s, Len(s)))

RECURSIVE NumberToString(_)
\* String(n) for a non-negative integer.
NumberToString(n) ==
  IF n < 10 THEN Ch("0123456789", n + 1)
  ELSE NumberToString(n \div 10) \o Ch("0123456789", (n % 10) + 1)

RECURSIVE stringLess(_, _)
\* a < b on two strings: by code unit, a proper prefix first.
stringLess(a, b) ==
  IF Len(b) = 0 THEN FALSE
  ELSE IF Len(a) = 0 THEN TRUE
  ELSE IF Ch(a, 1) = Ch(b, 1) THEN stringLess(Tail(a), Tail(b))
  ELSE charCodeAt[Ch(a, 1)] < charCodeAt[Ch(b, 1)]

(***************************************************************************)
(* JavaScript values and completions                                       *)
(***************************************************************************)
JStr(s) == [type |-> "string", str |-> s]
JNum(n) == [type |-> "number", num |-> n]
Ret(v) == [threw |-> FALSE, value |-> v]
Throw(name, message) == [threw |-> TRUE, name |-> name, message |-> message]
defaultOptions == [includePrerelease |-> FALSE]

\* null
Null == [type |-> "null"]

\* a === b on numbers and strings.
strictEquals(a, b) ==
  /\ a.type = b.type
  /\ IF a.type = "number" THEN a.num = b.num ELSE a.str = b.str

\* String(a) of a number or a string.
JSString(a) == IF a.type = "number" THEN NumberToString(a.num) ELSE a.str

(***************************************************************************)
(* Grammar                                                                 *)
(***************************************************************************)
MAX_LENGTH == 256

\* /^[0-9]+$/
numeric(s) == Len(s) > 0 /\ \A i \in 1..Len(s) : Ch(s, i) \in Digits

\* ^(0|[1-9]\d*)$
NUMERICIDENTIFIER(s) == numeric(s) /\ (s = "0" \/ Ch(s, 1) # "0")

\* ^\d*[a-zA-Z-][a-zA-Z0-9-]*$
NONNUMERICIDENTIFIER(s) ==
  /\ Len(s) > 0
  /\ \A i \in 1..Len(s) : Ch(s, i) \in Digits \cup Letters \cup {"-"}
  /\ \E i \in 1..Len(s) : Ch(s, i) \notin Digits

PRERELEASEIDENTIFIER(s) == NUMERICIDENTIFIER(s) \/ NONNUMERICIDENTIFIER(s)

\* ^[0-9A-Za-z-]+$
BUILDIDENTIFIER(s) ==
  /\ Len(s) > 0
  /\ \A i \in 1..Len(s) : Ch(s, i) \in Digits \cup Letters \cup {"-"}

allPrereleaseIdentifiers(ids) == \A i \in 1..Len(ids) : PRERELEASEIDENTIFIER(ids[i])

\* The text after "-": dot-separated prerelease identifiers.
PRERELEASE(s) == allPrereleaseIdentifiers(split(s, "."))

allBuildIdentifiers(ids) == \A i \in 1..Len(ids) : BUILDIDENTIFIER(ids[i])

\* The text after "+": dot-separated build identifiers.
BUILD(s) == allBuildIdentifiers(split(s, "."))

noMatch == [matched |-> FALSE]

\* The groups of a full version: the three numbers, prerelease and build.
fullGroups(nums, pre, bld) ==
  IF /\ Len(nums) = 3
     /\ \A i \in 1..3 : NUMERICIDENTIFIER(nums[i])
     /\ (pre # Undefined => PRERELEASE(pre[1]))
     /\ (bld # Undefined => BUILD(bld[1]))
  THEN [matched |-> TRUE, m1 |-> nums[1], m2 |-> nums[2], m3 |-> nums[3],
        m4 |-> pre, m5 |-> bld]
  ELSE noMatch

fullMain(p, bld) == fullGroups(split(p.head, "."), p.rest, bld)

fullBody(b) == fullMain(cut(b.head, "-"), b.rest)

\* v?MAIN(-PRERELEASE)?(+BUILD)? against the whole of s.  "+" occurs in no
\* main version or prerelease and "-" in no main version, so the first "+"
\* starts the build and the first "-" before it the prerelease.
FULLPLAIN(s) == fullBody(cut(IF startsWith(s, "v") THEN Tail(s) ELSE s, "+"))

\* re[FULL]
FULL(s) == FULLPLAIN(s)

(***************************************************************************)
(* SemVer                                                                  *)
(***************************************************************************)
identifierStrings(prerelease) == [i \in 1..Len(prerelease) |-> JSString(prerelease[i])]

\* format joining the prerelease identifiers without the dots.
format_unseparated(major, minor, patch, prerelease) ==
  NumberToString(major) \o "." \o NumberToString(minor) \o "." \o NumberToString(patch)
    \o (IF Len(prerelease) > 0 THEN "-" \o join(identifierStrings(prerelease), "") ELSE "")

\* SemVer.format: the canonical string of the fields.
format(major, minor, patch, prerelease) ==
  NumberToString(major) \o "." \o NumberToString(minor) \o "." \o NumberToString(patch)
    \o (IF Len(prerelease) > 0 THEN "-" \o join(identifierStrings(prerelease), ".") ELSE "")

\* The map of the constructor: a numeric prerelease identifier becomes a
\* number (the num < MAX_SAFE_INTEGER test always passes within the bounds).
numberify(id) == IF numeric(id) THEN JNum(ToNumber(id)) ELSE JStr(id)

numberifyAll(ids) == [i \in 1..Len(ids) |-> numberify(ids[i])]

\* The object the constructor leaves (it ends in this.format()).
semverObject(raw, options, major, minor, patch, prerelease, build) ==
  [type |-> "SemVer", raw |-> raw, options |-> options,
   major |-> major, minor |-> minor, patch |-> patch,
   version |-> format(major, minor, patch, prerelease),
   build |-> build, prerelease |-> prerelease]

\* The constructor after the match (the major/minor/patch checks against
\* MAX_SAFE_INTEGER pass within the bounds).
semverOfMatch(raw, options, m) ==
  IF ~m.matched THEN Throw("TypeError", "Invalid Version: " \o raw)
  ELSE Ret(semverObject(raw, options, ToNumber(m.m1), ToNumber(m.m2), ToNumber(m.m3),
             IF m.m4 = Undefined THEN <<>> ELSE numberifyAll(split(m.m4[1], ".")),
             IF m.m5 = Undefined THEN <<>> ELSE split(m.m5[1], ".")))

RECURSIVE SemVer(_, _)
\* new SemVer(version, options)
SemVer(version, options) ==
  IF version.type = "SemVer" THEN SemVer(JStr(version.version), options)
  ELSE IF version.type # "string" THEN Throw("TypeError", "Invalid Version: ")
  ELSE IF Len(version.str) > MAX_LENGTH
  THEN Throw("TypeError", "version is longer than 256 characters")
  ELSE semverOfMatch(version.str, options, FULL(trim(version.str)))

compareValues(x, y, anum, bnum) ==
  IF strictEquals(x, y) THEN 0
  ELSE IF anum /\ ~bnum THEN -1
  ELSE IF bnum /\ ~anum THEN 1
  ELSE IF x.type = "number" THEN (IF x.num < y.num THEN -1 ELSE 1)
  ELSE IF stringLess(x.str, y.str) THEN -1 ELSE 1

compareNumeric(a, b, as, bs, anum, bnum) ==
  IF anum /\ bnum THEN compareValues(JNum(ToNumber(as)), JNum(ToNumber(bs)), anum, bnum)
  ELSE compareValues(a, b, anum, bnum)

compareStrings(a, b, as, bs) == compareNumeric(a, b, as, bs, numeric(as), numeric(bs))

\* compareIdentifiers without the conversion of numeric identifiers to numbers.
compareIdentifiers_lexical(a, b) ==
  compareValues(JStr(JSString(a)), JStr(JSString(b)),
                numeric(JSString(a)), numeric(JSString(b)))

compareIdentifiers(a, b) == compareStrings(a, b, JSString(a), JSString(b))

firstNonZero3(x, y, z) == IF x # 0 THEN x ELSE IF y # 0 THEN y ELSE z

\* SemVer.compareMain (a || b || c).
compareMain(this, other) ==
  firstNonZero3(compareIdentifiers(JNum(this.major), JNum(other.major)),
                compareIdentifiers(JNum(this.minor), JNum(other.minor)),
                compareIdentifiers(JNum(this.patch), JNum(other.patch)))

RECURSIVE comparePreLoop(_, _, _)
\* The do-while of comparePre, from index i (1-based).
comparePreLoop(A, B, i) ==
  IF i > Len(A) /\ i > Len(B) THEN 0
  ELSE IF i > Len(B) THEN 1
  ELSE IF i > Len(A) THEN -1
  ELSE IF strictEquals(A[i], B[i]) THEN comparePreLoop(A, B, i + 1)
  ELSE compareIdentifiers(A[i], B[i])

\* comparePre with the release/prerelease test answering -1 both ways.
comparePre_oneSided(this, other) ==
  IF Len(this.prerelease) > 0 /\ Len(other.prerelease) = 0 THEN -1
  ELSE IF Len(this.prerelease) = 0 /\ Len(other.prerelease) > 0 THEN -1
  ELSE IF Len(this.prerelease) = 0 /\ Len(other.prerelease) = 0 THEN 0
  ELSE comparePreLoop(this.prerelease, other.prerelease, 1)

\* SemVer.comparePre
comparePre(this, other) ==
  IF Len(this.prerelease) > 0 /\ Len(other.prerelease) = 0 THEN -1
  ELSE IF Len(this.prerelease) = 0 /\ Len(other.prerelease) > 0 THEN 1
  ELSE IF Len(this.prerelease) = 0 /\ Len(other.prerelease) = 0 THEN 0
  ELSE comparePreLoop(this.prerelease, other.prerelease, 1)

firstNonZero2(x, y) == IF x # 0 THEN x ELSE y

\* SemVer.compare on two SemVer objects.
SemVer_compare(this, other) == firstNonZero2(compareMain(this, other), comparePre(this, other))

compareOf(a, b) ==
  IF a.threw THEN a
  ELSE IF b.threw THEN b
  ELSE Ret(SemVer_compare(a.value, b.value))

\* compare(v1, v2, options)
compare(v1, v2, options) == compareOf(SemVer(v1, options), SemVer(v2, options))

RECURSIVE compareBuildLoop(_, _, _)
\* The do-while of SemVer.compareBuild from index i (1-based here).
compareBuildLoop(A, B, i) ==
  IF i > Len(A) /\ i > Len(B) THEN 0
  ELSE IF i > Len(B) THEN 1
  ELSE IF i > Len(A) THEN -1
  ELSE IF A[i] = B[i] THEN compareBuildLoop(A, B, i + 1)
  ELSE compareIdentifiers(JStr(A[i]), JStr(B[i]))

\* SemVer.compareBuild on two SemVer objects.
SemVer_compareBuild(this, other) == compareBuildLoop(this.build, other.build, 1)

compareBuildOf(a, b) ==
  IF a.threw THEN a
  ELSE IF b.threw THEN b
  ELSE Ret(firstNonZero2(SemVer_compare(a.value, b.value),
                         SemVer_compareBuild(a.value, b.value)))

\* compareBuild(a, b, options)
compareBuild(a, b, options) == compareBuildOf(SemVer(a, options), SemVer(b, options))

\* gt, lt, eq, neq, gte, lte on the result of compare.
relation(rel, c) ==
  IF c.threw THEN c
  ELSE Ret(CASE rel = "gt" -> c.value > 0
             [] rel = "lt" -> c.value < 0
             [] rel = "eq" -> c.value = 0
             [] rel = "neq" -> c.value # 0
             [] rel = "gte" -> c.value >= 0
             [] rel = "lte" -> c.value <= 0)

gt(v1, v2, options) == relation("gt", compare(v1, v2, options))
lt(v1, v2, options) == relation("lt", compare(v1, v2, options))
eq(v1, v2, options) == relation("eq", compare(v1, v2, options))
neq(v1, v2, options) == relation("neq", compare(v1, v2, options))
gte(v1, v2, options) == relation("gte", compare(v1, v2, options))
lte(v1, v2, options) == relation("lte", compare(v1, v2, options))

\* cmp(v1, operator, v2, options) on two SemVer objects.
cmp(v1, operator, v2, options) ==
  CASE operator = "===" -> Ret(v1.version = v2.version)
    [] operator = "!==" -> Ret(v1.version # v2.version)
    [] operator \in {"", "=", "=="} -> eq(v1, v2, options)
    [] operator = "!=" -> neq(v1, v2, options)
    [] operator = ">" -> gt(v1, v2, options)
    [] operator = ">=" -> gte(v1, v2, options)
    [] operator = "<" -> lt(v1, v2, options)
    [] operator = "<=" -> lte(v1, v2, options)
    [] OTHER -> Throw("TypeError", "Invalid operator: " \o operator)

(***************************************************************************)
(* Grammar of comparators and ranges                                       *)
(***************************************************************************)
\* The length of the match of src[GTLT], ((?:<|>)?=?), at the start of s.
gtltEq(s, n) == IF Len(s) > n /\ Ch(s, n + 1) = "=" THEN n + 1 ELSE n
gtltLen(s) == gtltEq(s, IF Len(s) > 0 /\ Ch(s, 1) \in {"<", ">"} THEN 1 ELSE 0)

RECURSIVE skipLoose(_)
\* s after the match of [v=\s]*.
skipLoose(s) ==
  IF Len(s) > 0 /\ Ch(s, 1) \in {"v", "=", " "} THEN skipLoose(Tail(s)) ELSE s

\* ^(0|[1-9]\d*|x|X|\*)$
XRANGEIDENTIFIER(s) == NUMERICIDENTIFIER(s) \/ s \in {"x", "X", "*"}

\* The groups of a partial version: M, and m, p, pr, build where present.
xrangeGroups(M, m, p, pr, b) ==
  IF /\ XRANGEIDENTIFIER(M)
     /\ (m # Undefined => XRANGEIDENTIFIER(m[1]))
     /\ (p # Undefined => XRANGEIDENTIFIER(p[1]))
     /\ (pr # Undefined => PRERELEASE(pr[1]))
     /\ (b # Undefined => BUILD(b[1]))
  THEN [matched |-> TRUE, gtlt |-> "", M |-> Some(M), m |-> m, p |-> p, pr |-> pr, b |-> b]
  ELSE noMatch

\* The third component with its optional -PRERELEASE and +BUILD.
xrangeThird(M, m, pb, bld) == xrangeGroups(M, m, Some(pb.head), pb.rest, bld.rest)

xrangeSecond(M, c) ==
  IF c.rest = Undefined
  THEN xrangeGroups(M, Some(c.head), Undefined, Undefined, Undefined)
  ELSE xrangeThird(M, Some(c.head), cut(cut(c.rest[1], "+").head, "-"), cut(c.rest[1], "+"))

xrangeFirst(c) ==
  IF c.rest = Undefined
  THEN xrangeGroups(c.head, Undefined, Undefined, Undefined, Undefined)
  ELSE xrangeSecond(c.head, cut(c.rest[1], "."))

\* src[XRANGEPLAIN] against the whole of s.  An identifier holds no ".",
\* "-" or "+", so the first two "." end M and m, and in what follows the
\* first "+" starts the build and the first "-" before it the prerelease.
XRANGEPLAIN(s) == xrangeFirst(cut(skipLoose(s), "."))

withGtlt(m, gtlt) == IF m.matched THEN [m EXCEPT !.gtlt = gtlt] ELSE m

xrangeAt(s, n) == withGtlt(XRANGEPLAIN(skipSpaces(SubSeq(s, n + 1, Len(s)))), SubSeq(s, 1, n))

\* re[XRANGE]
XRANGE(s) == xrangeAt(s, gtltLen(s))

\* re[TILDE]
TILDE(s) ==
  IF startsWith(s, "~>") THEN XRANGEPLAIN(SubSeq(s, 3, Len(s)))
  ELSE IF startsWith(s, "~") THEN XRANGEPLAIN(Tail(s))
  ELSE noMatch

\* re[CARET]
CARET(s) == IF startsWith(s, "^") THEN XRANGEPLAIN(Tail(s)) ELSE noMatch

comparatorGroups(gtlt, version, m) ==
  IF m.matched THEN [matched |-> TRUE, m1 |-> Some(gtlt), m2 |-> Some(version)] ELSE noMatch

comparatorAt(s, n) ==
  comparatorGroups(SubSeq(s, 1, n), skipSpaces(SubSeq(s, n + 1, Len(s))),
                   FULLPLAIN(skipSpaces(SubSeq(s, n + 1, Len(s)))))

\* re[COMPARATOR]: ^GTLT\s*(FULLPLAIN)$|^$
COMPARATOR(s) ==
  IF s = "" THEN [matched |-> TRUE, m1 |-> Undefined, m2 |-> Undefined]
  ELSE comparatorAt(s, gtltLen(s))

hyphenGroups(from, f, to, t) ==
  IF f.matched /\ t.matched THEN [matched |-> TRUE, from |-> from, f |-> f, to |-> to, t |-> t]
  ELSE noMatch

hyphenSides(from, to) == hyphenGroups(from, XRANGEPLAIN(from), to, XRANGEPLAIN(to))

hyphenAt(s, i) ==
  IF i = 0 THEN noMatch
  ELSE hyphenSides(trim(SubSeq(s, 1, i - 1)), trim(SubSeq(s, i + 3, Len(s))))

\* re[HYPHENRANGE]: ^\s*(XRANGEPLAIN)\s+-\s+(XRANGEPLAIN)\s*$.  No partial
\* version holds " - ", so the first one separates the two sides.
HYPHENRANGE(s) == hyphenAt(s, indexOf(s, " - "))

RECURSIVE starEnd(_, _, _)
\* Where a match of src[STAR], (<|>)?=?\s*\*, that starts at i ends (0: no
\* match); step 0 is at (<|>)?, 1 at =?, 2 at \s*\*.
starEnd(s, i, step) ==
  IF i > Len(s) THEN 0
  ELSE IF step = 0 THEN starEnd(s, IF Ch(s, i) \in {"<", ">"} THEN i + 1 ELSE i, 1)
  ELSE IF step = 1 THEN starEnd(s, IF Ch(s, i) = "=" THEN i + 1 ELSE i, 2)
  ELSE IF Ch(s, i) = " " THEN starEnd(s, i + 1, 2)
  ELSE IF Ch(s, i) = "*" THEN i
  ELSE 0

(***************************************************************************)
(* Comparator                                                              *)
(***************************************************************************)
ANY == [type |-> "ANY"]

comparatorObject(operator, semver, options) ==
  IF semver.threw THEN semver
  ELSE Ret([type |-> "Comparator", operator |-> operator, semver |-> semver.value,
            options |-> options,
            value |-> IF semver.value.type = "ANY" THEN ""
                      ELSE operator \o semver.value.version])

\* Comparator.parse, and the value the constructor sets after it.
Comparator_parse(comp, options, m) ==
  IF ~m.matched THEN Throw("TypeError", "Invalid comparator: " \o comp)
  ELSE comparatorObject(
         IF m.m1 = Undefined \/ m.m1 = Some("=") THEN "" ELSE m.m1[1],
         IF m.m2 = Undefined \/ m.m2 = Some("") THEN Ret(ANY)
         ELSE SemVer(JStr(m.m2[1]), options),
         options)

\* new Comparator(comp, options) of a string.
Comparator(comp, options) == Comparator_parse(comp, options, COMPARATOR(comp))

\* Comparator.test reading the operator ">" as "!=".
Comparator_test_unequal(this, version) ==
  IF this.semver.type = "ANY" \/ version.type = "ANY" THEN Ret(TRUE)
  ELSE cmp(version, IF this.operator = ">" THEN "!=" ELSE this.operator, this.semver,
           this.options)

\* Comparator.test(version) of a SemVer object or a string.
Comparator_test(this, version) ==
  IF this.semver.type = "ANY" \/ version.type = "ANY" THEN Ret(TRUE)
  ELSE IF version.type = "string"
  THEN (IF SemVer(version, this.options).threw THEN SemVer(version, this.options)
        ELSE cmp(SemVer(version, this.options).value, this.operator, this.semver,
                 this.options))
  ELSE cmp(version, this.operator, this.semver, this.options)

(***************************************************************************)
(* Range: rewriting of the shorthand syntaxes                              *)
(***************************************************************************)
\* isX of a capture group.
isX(id) == id = Undefined \/ id[1] = "" \/ id[1] \in {"x", "X"} \/ id[1] = "*"

\* (+n + 1) in a string concatenation.
plusOne(n) == NumberToString(ToNumber(n) + 1)

\* tildeReplacement that lets the minor of a full version move, as a caret
\* does.
tildeReplacement_caret(M, m, p, pr) ==
  IF isX(M) THEN ""
  ELSE IF isX(m) THEN ">=" \o M[1] \o ".0.0 <" \o plusOne(M[1]) \o ".0.0"
  ELSE IF isX(p)
  THEN ">=" \o M[1] \o "." \o m[1] \o ".0 <" \o M[1] \o "." \o plusOne(m[1]) \o ".0"
  ELSE ">=" \o M[1] \o "." \o m[1] \o "." \o p[1] \o " <" \o plusOne(M[1]) \o ".0.0"

\* The callback of replaceTilde.
tildeReplacement(M, m, p, pr) ==
  IF isX(M) THEN ""
  ELSE IF isX(m) THEN ">=" \o M[1] \o ".0.0 <" \o plusOne(M[1]) \o ".0.0"
  ELSE IF isX(p)
  THEN ">=" \o M[1] \o "." \o m[1] \o ".0 <" \o M[1] \o "." \o plusOne(m[1]) \o ".0"
  ELSE IF pr # Undefined /\ pr # Some("")
  THEN ">=" \o M[1] \o "." \o m[1] \o "." \o p[1] \o "-" \o pr[1]
         \o " <" \o M[1] \o "." \o plusOne(m[1]) \o ".0"
  ELSE ">=" \o M[1] \o "." \o m[1] \o "." \o p[1]
         \o " <" \o M[1] \o "." \o plusOne(m[1]) \o ".0"

replaceTildeOf(comp, r) ==
  IF r.matched THEN tildeReplacement(r.M, r.m, r.p, r.pr) ELSE comp

replaceTilde(comp) == replaceTildeOf(comp, TILDE(comp))

mapReplaceTilde(comps) == [i \in 1..Len(comps) |-> replaceTilde(comps[i])]

replaceTildes(comp) == join(mapReplaceTilde(splitWS(trim(comp))), " ")

\* caretUpper without the cases of a zero major.
caretUpper_major(M, m, p) == " <" \o plusOne(M[1]) \o ".0.0"

\* The upper bound of a caret range on a full version.
caretUpper(M, m, p) ==
  IF M[1] = "0"
  THEN (IF m[1] = "0" THEN " <" \o M[1] \o "." \o m[1] \o "." \o plusOne(p[1])
        ELSE " <" \o M[1] \o "." \o plusOne(m[1]) \o ".0")
  ELSE " <" \o plusOne(M[1]) \o ".0.0"

\* The callback of replaceCaret.
caretReplacement(M, m, p, pr) ==
  IF isX(M) THEN ""
  ELSE IF isX(m) THEN ">=" \o M[1] \o ".0.0 <" \o plusOne(M[1]) \o ".0.0"
  ELSE IF isX(p)
  THEN (IF M[1] = "0"
        THEN ">=" \o M[1] \o "." \o m[1] \o ".0 <" \o M[1] \o "." \o plusOne(m[1]) \o ".0"
        ELSE ">=" \o M[1] \o "." \o m[1] \o ".0 <" \o plusOne(M[1]) \o ".0.0")
  ELSE IF pr # Undefined /\ pr # Some("")
  THEN ">=" \o M[1] \o "." \o m[1] \o "." \o p[1] \o "-" \o pr[1] \o caretUpper(M, m, p)
  ELSE ">=" \o M[1] \o "." \o m[1] \o "." \o p[1] \o caretUpper(M, m, p)

replaceCaretOf(comp, r) ==
  IF r.matched THEN caretReplacement(r.M, r.m, r.p, r.pr) ELSE comp

replaceCaret(comp) == replaceCaretOf(comp, CARET(comp))

mapReplaceCaret(comps) == [i \in 1..Len(comps) |-> replaceCaret(comps[i])]

replaceCarets(comp) == join(mapReplaceCaret(splitWS(trim(comp))), " ")

\* xrangeReplacement that keeps the operator and fills the wildcards with 0.
xrangeReplacement_zeros(whole, gtlt, M, m, xm, xp) ==
  IF isX(M) THEN "*"
  ELSE IF gtlt # "" /\ xp THEN gtlt \o M[1] \o "." \o (IF xm THEN "0" ELSE m[1]) \o ".0"
  ELSE IF xm THEN ">=" \o M[1] \o ".0.0 <" \o plusOne(M[1]) \o ".0.0"
  ELSE IF xp
  THEN ">=" \o M[1] \o "." \o m[1] \o ".0 <" \o M[1] \o "." \o plusOne(m[1]) \o ".0"
  ELSE whole

\* The callback of replaceXRange; whole is the whole match (the callback's
\* ret parameter), xm and xp as there.
xrangeReplacement(whole, gtlt, M, m, xm, xp) ==
  IF isX(M) THEN (IF gtlt \in {">", "<"} THEN "<0.0.0" ELSE "*")
  ELSE IF gtlt # "" /\ xp
  THEN (IF gtlt = ">"
        THEN (IF xm THEN ">=" \o plusOne(M[1]) \o ".0.0"
              ELSE ">=" \o M[1] \o "." \o plusOne(m[1]) \o ".0")
        ELSE IF gtlt = "<="
        THEN (IF xm THEN "<" \o plusOne(M[1]) \o ".0.0"
              ELSE "<" \o M[1] \o "." \o plusOne(m[1]) \o ".0")
        ELSE gtlt \o M[1] \o "." \o (IF xm THEN "0" ELSE m[1]) \o ".0")
  ELSE IF xm THEN ">=" \o M[1] \o ".0.0 <" \o plusOne(M[1]) \o ".0.0"
  ELSE IF xp
  THEN ">=" \o M[1] \o "." \o m[1] \o ".0 <" \o M[1] \o "." \o plusOne(m[1]) \o ".0"
  ELSE whole

replaceXRangeOf(comp, r) ==
  IF r.matched
  THEN xrangeReplacement(comp,
         IF r.gtlt = "=" /\ (isX(r.M) \/ isX(r.m) \/ isX(r.p)) THEN "" ELSE r.gtlt,
         r.M, r.m, isX(r.M) \/ isX(r.m), isX(r.M) \/ isX(r.m) \/ isX(r.p))
  ELSE comp

replaceXRange(comp) == replaceXRangeOf(trim(comp), XRANGE(trim(comp)))

mapReplaceXRange(comps) == [i \in 1..Len(comps) |-> replaceXRange(comps[i])]

replaceXRanges(comp) == join(mapReplaceXRange(splitWS(comp)), " ")

\* s without its leftmost match of re[STAR], which starts at i (0: none).
removeStar(s, i) ==
  IF i = 0 THEN s
  ELSE SubSeq(s, 1, i - 1) \o SubSeq(s, starEnd(s, i, 0) + 1, Len(s))

starStart(s) == firstOf({i \in 1..Len(s) : starEnd(s, i, 0) # 0})

replaceStars(comp) == removeStar(trim(comp), starStart(trim(comp)))

parseComparator(comp) == replaceStars(replaceXRanges(replaceTildes(replaceCarets(comp))))

hyphenFrom(from, fM, fm, fp) ==
  IF isX(fM) THEN ""
  ELSE IF isX(fm) THEN ">=" \o fM[1] \o ".0.0"
  ELSE IF isX(fp) THEN ">=" \o fM[1] \o "." \o fm[1] \o ".0"
  ELSE ">=" \o from

\* hyphenTo with an inclusive upper bound on a partial version too.
hyphenTo_inclusive(to, tM, tm, tp, tpr) ==
  IF isX(tM) THEN ""
  ELSE IF isX(tm) THEN "<=" \o tM[1] \o ".0.0"
  ELSE IF isX(tp) THEN "<=" \o tM[1] \o "." \o tm[1] \o ".0"
  ELSE "<=" \o to

hyphenTo(to, tM, tm, tp, tpr) ==
  IF isX(tM) THEN ""
  ELSE IF isX(tm) THEN "<" \o plusOne(tM[1]) \o ".0.0"
  ELSE IF isX(tp) THEN "<" \o tM[1] \o "." \o plusOne(tm[1]) \o ".0"
  ELSE IF tpr # Undefined /\ tpr # Some("")
  THEN "<=" \o tM[1] \o "." \o tm[1] \o "." \o tp[1] \o "-" \o tpr[1]
  ELSE "<=" \o to

\* range.replace(re[HYPHENRANGE], hyphenReplace)
hyphenReplace(range, h) ==
  IF h.matched
  THEN trim(hyphenFrom(h.from, h.f.M, h.f.m, h.f.p) \o " "
              \o hyphenTo(h.to, h.t.M, h.t.m, h.t.p, h.t.pr))
  ELSE range

(***************************************************************************)
(* Range                                                                   *)
(***************************************************************************)
\* The results of a map whose callback may throw: the first throw, else
\* the values.
collect(rs) ==
  IF \E i \in 1..Len(rs) : rs[i].threw
  THEN rs[Min({i \in 1..Len(rs) : rs[i].threw})]
  ELSE Ret([i \in 1..Len(rs) |-> rs[i].value])

mapParseComparator(comps) == [i \in 1..Len(comps) |-> parseComparator(comps[i])]

mapComparator(comps, options) == [i \in 1..Len(comps) |-> Comparator(comps[i], options)]

\* Range.parseRange after the hyphen replacement.
parseRangeOf(range, options) ==
  collect(mapComparator(
    splitWS(join(mapParseComparator(split(join(splitWS(range), " "), " ")), " ")),
    options))

\* Range.parseRange
parseRange(range, options) ==
  parseRangeOf(hyphenReplace(trim(range), HYPHENRANGE(trim(range))), options)

mapParseRange(ranges, options) ==
  [i \in 1..Len(ranges) |-> parseRange(trim(ranges[i]), options)]

comparatorValues(comps) == [i \in 1..Len(comps) |-> comps[i].value]

\* Range.format
Range_format(set) ==
  trim(join([i \in 1..Len(set) |-> trim(join(comparatorValues(set[i]), " "))], "||"))

nonEmpty(c) == Len(c) > 0

rangeObject(raw, options, set) ==
  IF Len(set) = 0 THEN Throw("TypeError", "Invalid SemVer Range: " \o raw)
  ELSE Ret([type |-> "Range", raw |-> raw, options |-> options,
            includePrerelease |-> options.includePrerelease,
            set |-> set, range |-> Range_format(set)])

rangeOfSet(raw, options, set) ==
  IF set.threw THEN set ELSE rangeObject(raw, options, SelectSeq(set.value, nonEmpty))

RECURSIVE Range(_, _)
\* new Range(range, options) of a Range, a Comparator or a string;
\* range.split(/\s*\|\|\s*/) is the split at "||", each part trimmed.
Range(range, options) ==
  IF range.type = "Range"
  THEN (IF range.includePrerelease = options.includePrerelease THEN Ret(range)
        ELSE Range(JStr(range.raw), options))
  ELSE IF range.type = "Comparator" THEN Range(JStr(range.value), options)
  ELSE rangeOfSet(range.str, options, collect(mapParseRange(split(range.str, "||"), options)))

\* testSetOf with a prerelease rule that accepts a comparator with a
\* prerelease whatever its major.minor.patch.
testSetOf_anyTuple(tests, set, version, options) ==
  IF \E i \in 1..Len(tests) : tests[i].threw \/ ~tests[i].value
  THEN tests[Min({i \in 1..Len(tests) : tests[i].threw \/ ~tests[i].value})]
  ELSE IF Len(version.prerelease) > 0 /\ ~options.includePrerelease
  THEN Ret(\E i \in 1..Len(set) :
             /\ set[i].semver.type # "ANY"
             /\ Len(set[i].semver.prerelease) > 0)
  ELSE Ret(TRUE)

\* The first comparator test that throws or fails decides; else the
\* prerelease rule.
testSetOf(tests, set, version, options) ==
  IF \E i \in 1..Len(tests) : tests[i].threw \/ ~tests[i].value
  THEN tests[Min({i \in 1..Len(tests) : tests[i].threw \/ ~tests[i].value})]
  ELSE IF Len(version.prerelease) > 0 /\ ~options.includePrerelease
  THEN Ret(\E i \in 1..Len(set) :
             /\ set[i].semver.type # "ANY"
             /\ Len(set[i].semver.prerelease) > 0
             /\ set[i].semver.major = version.major
             /\ set[i].semver.minor = version.minor
             /\ set[i].semver.patch = version.patch)
  ELSE Ret(TRUE)

mapTest(set, version) == [i \in 1..Len(set) |-> Comparator_test(set[i], version)]

testSet(set, version, options) == testSetOf(mapTest(set, version), set, version, options)

\* anySet that looks at the first clause only.
anySet_first(results) == results[1]

\* The loop of Range.test: the first clause that passes or throws decides.
anySet(results) ==
  IF \E i \in 1..Len(results) : results[i].threw \/ results[i].value
  THEN results[Min({i \in 1..Len(results) : results[i].threw \/ results[i].value})]
  ELSE Ret(FALSE)

mapTestSet(this, version) ==
  [i \in 1..Len(this.set) |-> testSet(this.set[i], version, this.options)]

Range_testOf(this, version) ==
  IF version.threw THEN version ELSE anySet(mapTestSet(this, version.value))

\* Range.test(version) of a SemVer object or a string.
Range_test(this, version) ==
  Range_testOf(this, IF version.type = "string" THEN SemVer(version, this.options)
                     ELSE Ret(version))

satisfiesOf(version, range) ==
  IF range.threw THEN Ret(FALSE) ELSE Range_test(range.value, version)

\* satisfies(version, range, options)
satisfies(version, range, options) == satisfiesOf(version, Range(range, options))

(***************************************************************************)
(* Intersection                                                            *)
(***************************************************************************)
\* satisfies(version, rangeTmp, options) where rangeTmp = new Range(...)
\* was built outside any try.
satisfiesTmp(version, rangeTmp, options) ==
  IF rangeTmp.threw THEN rangeTmp ELSE satisfies(version, rangeTmp.value, options)

\* The return expression of Comparator.intersects.
intersectsDirections(this, comp, less, greater) ==
  \/ this.operator \in {">=", ">"} /\ comp.operator \in {">=", ">"}
  \/ this.operator \in {"<=", "<"} /\ comp.operator \in {"<=", "<"}
  \/ /\ this.semver.version = comp.semver.version
     /\ this.operator \in {">=", "<="} /\ comp.operator \in {">=", "<="}
  \/ less.value /\ this.operator \in {">=", ">"} /\ comp.operator \in {"<=", "<"}
  \/ greater.value /\ this.operator \in {"<=", "<"} /\ comp.operator \in {">=", ">"}

\* Comparator.intersects(comp, options)
Comparator_intersects(this, comp, options) ==
  IF this.operator = ""
  THEN (IF this.value = "" THEN Ret(TRUE)
        ELSE satisfiesTmp(JStr(this.value), Range(JStr(comp.value), options), options))
  ELSE IF comp.operator = ""
  THEN (IF comp.value = "" THEN Ret(TRUE)
        ELSE satisfiesTmp(comp.semver, Range(JStr(this.value), options), options))
  ELSE Ret(intersectsDirections(this, comp,
             cmp(this.semver, "<", comp.semver, options),
             cmp(this.semver, ">", comp.semver, options)))

RECURSIVE isSatisfiableLoop(_, _, _)
\* The while loop of isSatisfiable: testComparator against every remaining
\* comparator, then the next one popped.
isSatisfiableLoop(remainingComparators, testComparator, options) ==
  IF Len(remainingComparators) = 0 THEN TRUE
  ELSE IF \A i \in 1..Len(remainingComparators) :
            Comparator_intersects(testComparator, remainingComparators[i], options).value
  THEN isSatisfiableLoop(
         SubSeq(remainingComparators, 1, Len(remainingComparators) - 1),
         remainingComparators[Len(remainingComparators)], options)
  ELSE FALSE

\* isSatisfiable(comparators, options) of a clause (never empty).
isSatisfiable(comparators, options) ==
  isSatisfiableLoop(SubSeq(comparators, 1, Len(comparators) - 1),
                    comparators[Len(comparators)], options)

\* Range.intersects(range, options)
Range_intersects(this, range, options) ==
  \E i \in 1..Len(this.set) :
    /\ isSatisfiable(this.set[i], options)
    /\ \E j \in 1..Len(range.set) :
         /\ isSatisfiable(range.set[j], options)
         /\ \A a \in 1..Len(this.set[i]) : \A b \in 1..Len(range.set[j]) :
              Comparator_intersects(this.set[i][a], range.set[j][b], options).value

intersectsOf(range1, range2) ==
  IF range1.threw THEN range1
  ELSE IF range2.threw THEN range2
  ELSE Ret(Range_intersects(range1.value, range2.value, defaultOptions))

\* intersects(range1, range2, options): range1.intersects(range2) is called
\* without options, which Comparator.intersects then defaults.
intersects(range1, range2, options) ==
  intersectsOf(Range(range1, options), Range(range2, options))

(***************************************************************************)
(* Increment.  SemVer.inc assigns to the fields of its receiver, so the    *)
(* objects it works on live in a heap: a sequence of objects, an object's  *)
(* address being its index, new objects appended.  A call on the heap      *)
(* returns its completion together with the heap it leaves.                *)
(***************************************************************************)
Ref(addr) == [type |-> "ref", addr |-> addr]

\* The argument as the code sees it: the object behind a reference.
deref(heap, v) == IF v.type = "ref" THEN heap[v.addr] ELSE v

releaseTypes ==
  {"premajor", "preminor", "prepatch", "prerelease", "major", "minor", "patch", "pre"}

\* isNaN of a prerelease identifier or of undefined (a missing element);
\* the string identifiers of the inputs are decimal or hold a letter.
isNaN(pre, i) ==
  IF i > Len(pre) THEN TRUE
  ELSE IF pre[i].type = "number" THEN FALSE
  ELSE ~numeric(pre[i].str)

\* The loop of case "pre": the last number of the prerelease goes up by one,
\* or a 0 is pushed when there is none.
prereleaseBumped(pre) ==
  IF Len(pre) = 0 THEN <<JNum(0)>>
  ELSE IF \A i \in 1..Len(pre) : pre[i].type # "number" THEN Append(pre, JNum(0))
  ELSE [pre EXCEPT ![Max({i \in 1..Len(pre) : pre[i].type = "number"})] = JNum(@.num + 1)]

\* if (identifier) { ... } of case "pre"; "" is the absent identifier.
prereleaseIdentified(pre, identifier) ==
  IF identifier = "" THEN pre
  ELSE IF pre[1] = JStr(identifier)
  THEN (IF isNaN(pre, 2) THEN <<JStr(identifier), JNum(0)>> ELSE pre)
  ELSE <<JStr(identifier), JNum(0)>>

\* case "pre"
incPre(this, identifier) ==
  [this EXCEPT !.prerelease = prereleaseIdentified(prereleaseBumped(this.prerelease),
                                                   identifier)]

\* case "patch" bumping the patch of a prerelease as well.
incPatch_always(this) ==
  [this EXCEPT !.patch = @ + 1, !.prerelease = <<>>]

\* case "patch"
incPatch(this) ==
  [this EXCEPT !.patch = IF Len(this.prerelease) = 0 THEN @ + 1 ELSE @,
               !.prerelease = <<>>]

\* The switch of SemVer.inc on a supported release type.
incFields(this, release, identifier) ==
  CASE release = "premajor" ->
         incPre([this EXCEPT !.prerelease = <<>>, !.patch = 0, !.minor = 0,
                             !.major = @ + 1], identifier)
    [] release = "preminor" ->
         incPre([this EXCEPT !.prerelease = <<>>, !.patch = 0, !.minor = @ + 1],
                identifier)
    [] release = "prepatch" ->
         incPre(incPatch([this EXCEPT !.prerelease = <<>>]), identifier)
    [] release = "prerelease" ->
         incPre(IF Len(this.prerelease) = 0 THEN incPatch(this) ELSE this, identifier)
    [] release = "major" ->
         [this EXCEPT !.major = IF this.minor # 0 \/ this.patch # 0
                                   \/ Len(this.prerelease) = 0 THEN @ + 1 ELSE @,
                      !.minor = 0, !.patch = 0, !.prerelease = <<>>]
    [] release = "minor" ->
         [this EXCEPT !.minor = IF this.patch # 0 \/ Len(this.prerelease) = 0
                                THEN @ + 1 ELSE @,
                      !.patch = 0, !.prerelease = <<>>]
    [] release = "patch" -> incPatch(this)
    [] release = "pre" -> incPre(this, identifier)

\* this.format(); this.raw = this.version
incFormatted(this) ==
  [this EXCEPT !.version = format(this.major, this.minor, this.patch, this.prerelease),
               !.raw = format(this.major, this.minor, this.patch, this.prerelease)]

\* SemVer.inc writing the incremented fields to a new object.
SemVer_inc_copy(heap, this, release, identifier) ==
  IF release \notin releaseTypes
  THEN [threw |-> TRUE, name |-> "Error",
        message |-> "invalid increment argument: " \o release, heap |-> heap]
  ELSE [threw |-> FALSE, value |-> Ref(Len(heap) + 1),
        heap |-> Append(heap, incFormatted(incFields(heap[this], release, identifier)))]

\* SemVer.inc taking an unsupported release type for "patch".
SemVer_inc_lenient(heap, this, release, identifier) ==
  [threw |-> FALSE, value |-> Ref(this),
   heap |-> [heap EXCEPT ![this] =
               incFormatted(incFields(@, IF release \in releaseTypes THEN release
                                         ELSE "patch", identifier))]]

\* SemVer.inc(release, identifier) on the object at address this.
SemVer_inc(heap, this, release, identifier) ==
  IF release \notin releaseTypes
  THEN [threw |-> TRUE, name |-> "Error",
        message |-> "invalid increment argument: " \o release, heap |-> heap]
  ELSE [threw |-> FALSE, value |-> Ref(this),
        heap |-> [heap EXCEPT ![this] = incFormatted(incFields(@, release, identifier))]]

\* return <receiver>.version, or null from the catch.
incReturn(r) ==
  [threw |-> FALSE,
   value |-> IF r.threw THEN Null ELSE JStr(r.heap[r.value.addr].version),
   heap |-> r.heap]

\* new SemVer(version, options).inc(release, identifier) inside the try.
incOf(heap, v, release, identifier) ==
  IF v.threw THEN [threw |-> FALSE, value |-> Null, heap |-> heap]
  ELSE incReturn(SemVer_inc(Append(heap, v.value), Len(heap) + 1, release, identifier))

\* inc(version, release, options, identifier); options may be the identifier.
inc(heap, version, release, options, identifier) ==
  IF "str" \in DOMAIN options
  THEN incOf(heap, SemVer(deref(heap, version), defaultOptions), release, options.str)
  ELSE incOf(heap, SemVer(deref(heap, version), options), release, identifier)

(***************************************************************************)
(* minVersion.  The loop keeps minver and works on the comparators of the  *)
(* Range object; its state carries that object, so that what the function  *)
(* leaves of it is part of the result.                                     *)
(***************************************************************************)
\* new SemVer(comparator.semver.version); ANY has no version.
compverOf(comparator) ==
  IF comparator.semver.type = "ANY"
  THEN Throw("TypeError", "Invalid Version: undefined")
  ELSE SemVer(JStr(comparator.semver.version), defaultOptions)

\* case ">": patch++ or prerelease.push(0), then compver.raw = compver.format()
compverNext(compver) ==
  incFormatted(IF Len(compver.prerelease) = 0 THEN [compver EXCEPT !.patch = @ + 1]
               ELSE [compver EXCEPT !.prerelease = Append(@, JNum(0))])

\* if (!minver || gt(minver, compver)) minver = compver
minverOf(minver, compver) ==
  IF minver = Null THEN compver
  ELSE IF gt(minver, compver, defaultOptions).value THEN compver
  ELSE minver

\* The switch on comparator.operator, compver being the clone.
minVersionSwitch(st, operator, compver) ==
  IF compver.threw THEN [st EXCEPT !.result = compver]
  ELSE IF operator = ">"
  THEN [st EXCEPT !.minver = minverOf(@, compverNext(compver.value))]
  ELSE IF operator \in {"", ">="}
  THEN [st EXCEPT !.minver = minverOf(@, compver.value)]
  ELSE IF operator \in {"<", "<="} THEN st
  ELSE [st EXCEPT !.result = Throw("Error", "Unexpected operation: " \o operator)]

\* The body of comparators.forEach working on the comparator's own semver
\* object instead of a clone.
minVersionStep_noClone(st, i, j) ==
  IF st.result.threw THEN st
  ELSE IF st.range.set[i][j].operator = ">" /\ st.range.set[i][j].semver.type # "ANY"
  THEN [minVersionSwitch(st, ">", compverOf(st.range.set[i][j]))
          EXCEPT !.range.set[i][j].semver = compverNext(@)]
  ELSE minVersionSwitch(st, st.range.set[i][j].operator, compverOf(st.range.set[i][j]))

\* The body of comparators.forEach for the comparator range.set[i][j]; an
\* exception ends the loops.
minVersionStep(st, i, j) ==
  IF st.result.threw THEN st
  ELSE minVersionSwitch(st, st.range.set[i][j].operator, compverOf(st.range.set[i][j]))

RECURSIVE minVersionLoop(_, _, _)
\* for (i ...) comparators.forEach(...)
minVersionLoop(st, i, j) ==
  IF i > Len(st.range.set) THEN st
  ELSE IF j > Len(st.range.set[i]) THEN minVersionLoop(st, i + 1, 1)
  ELSE minVersionLoop(minVersionStep(st, i, j), i, j + 1)

\* if (minver && range.test(minver)) return minver; return null
minVersionEnd(st) ==
  IF st.result.threw THEN [result |-> st.result, range |-> st.range]
  ELSE IF st.minver = Null THEN [result |-> Ret(Null), range |-> st.range]
  ELSE IF Range_test(st.range, st.minver).value
  THEN [result |-> Ret(st.minver), range |-> st.range]
  ELSE [result |-> Ret(Null), range |-> st.range]

\* minVersion after new Range(range, options).
minVersionOf(range) ==
  IF range.threw THEN [result |-> range, range |-> Null]
  ELSE IF Range_test(range.value, SemVer(JStr("0.0.0"), defaultOptions).value).value
  THEN [result |-> SemVer(JStr("0.0.0"), defaultOptions), range |-> range.value]
  ELSE IF Range_test(range.value, SemVer(JStr("0.0.0-0"), defaultOptions).value).value
  THEN [result |-> SemVer(JStr("0.0.0-0"), defaultOptions), range |-> range.value]
  ELSE minVersionEnd(minVersionLoop([result |-> Ret(Null), minver |-> Null,
                                     range |-> range.value], 1, 1))

\* minVersion(range, options): its completion and the Range object after it.
minVersion(range, options) == minVersionOf(Range(range, options))

(***************************************************************************)
(* maxSatisfying, minSatisfying                                            *)
(***************************************************************************)
\* <best>SV.compare(v): v is a string, made a SemVer first.
compareWith(sv, v, options) == SemVer_compare(sv, SemVer(v, options).value)

\* The callback of versions.forEach keeping the later of two versions that
\* compare equal.
satisfyingStep_latest(st, v, rangeObj, options, worse) ==
  IF st.threw THEN st
  ELSE IF Range_test(rangeObj, v).threw THEN Range_test(rangeObj, v)
  ELSE IF ~Range_test(rangeObj, v).value THEN st
  ELSE IF st.best = Null THEN [st EXCEPT !.best = v, !.bestSV = SemVer(v, options).value]
  ELSE IF compareWith(st.bestSV, v, options) # -worse
  THEN [st EXCEPT !.best = v, !.bestSV = SemVer(v, options).value]
  ELSE st

\* The callback of versions.forEach: st holds max and maxSV (min and minSV);
\* worse is the outcome of compare that replaces them, -1 in maxSatisfying
\* and 1 in minSatisfying.  An exception of rangeObj.test(v) ends the scan.
satisfyingStep(st, v, rangeObj, options, worse) ==
  IF st.threw THEN st
  ELSE IF Range_test(rangeObj, v).threw THEN Range_test(rangeObj, v)
  ELSE IF ~Range_test(rangeObj, v).value THEN st
  ELSE IF st.best = Null THEN [st EXCEPT !.best = v, !.bestSV = SemVer(v, options).value]
  ELSE IF compareWith(st.bestSV, v, options) = worse
  THEN [st EXCEPT !.best = v, !.bestSV = SemVer(v, options).value]
  ELSE st

RECURSIVE satisfyingScan(_, _, _, _, _, _)
\* versions.forEach(...) from element i on.
satisfyingScan(st, versions, i, rangeObj, options, worse) ==
  IF i > Len(versions) THEN st
  ELSE satisfyingScan(satisfyingStep(st, versions[i], rangeObj, options, worse),
                      versions, i + 1, rangeObj, options, worse)

\* return max (return min)
satisfyingReturn(st) == IF st.threw THEN st ELSE Ret(st.best)

satisfyingOf(versions, rangeObj, options, worse) ==
  IF rangeObj.threw THEN Ret(Null)
  ELSE satisfyingReturn(satisfyingScan([threw |-> FALSE, best |-> Null, bestSV |-> Null],
                                       versions, 1, rangeObj.value, options, worse))

\* maxSatisfying(versions, range, options)
maxSatisfying(versions, range, options) ==
  satisfyingOf(versions, Range(range, options), options, -1)

\* minSatisfying(versions, range, options)
minSatisfying(versions, range, options) ==
  satisfyingOf(versions, Range(range, options), options, 1)

(***************************************************************************)
(* outside, ltr, gtr                                                       *)
(***************************************************************************)
\* gtfn, ltfn and ltefn of the switch on hilo, by the name of the relation.
gtfn(hilo) == IF hilo = ">" THEN "gt" ELSE "lt"
ltfn(hilo) == IF hilo = ">" THEN "lt" ELSE "gt"
ltefn(hilo) == IF hilo = ">" THEN "lte" ELSE "gte"
ecomp(hilo) == hilo \o "="

\* if (comparator.semver === ANY) comparator = new Comparator(">=0.0.0")
outsideComparator(comparator) ==
  IF comparator.semver.type = "ANY" THEN Comparator(">=0.0.0", defaultOptions).value
  ELSE comparator

\* if (gtfn(comparator.semver, high.semver)) high = comparator
\* else if (ltfn(comparator.semver, low.semver)) low = comparator
edgesOf(high, low, comparator, hilo, options) ==
  IF relation(gtfn(hilo), compare(comparator.semver, high.semver, options)).value
  THEN [high |-> comparator, low |-> low]
  ELSE IF relation(ltfn(hilo), compare(comparator.semver, low.semver, options)).value
  THEN [high |-> high, low |-> comparator]
  ELSE [high |-> high, low |-> low]

\* The body of for (let comparator of comparators); high = high || comparator.
edgesStep(edges, comparator, hilo, options) ==
  edgesOf(IF edges.high = Null THEN comparator ELSE edges.high,
          IF edges.low = Null THEN comparator ELSE edges.low,
          comparator, hilo, options)

RECURSIVE edgesLoop(_, _, _, _, _)
edgesLoop(edges, comparators, j, hilo, options) ==
  IF j > Len(comparators) THEN edges
  ELSE edgesLoop(edgesStep(edges, outsideComparator(comparators[j]), hilo, options),
                 comparators, j + 1, hilo, options)

\* The tests on high and low after the loop: TRUE where the code returns
\* false for the clause.
notOutside(version, edges, hilo) ==
  IF edges.high.operator = hilo \/ edges.high.operator = ecomp(hilo) THEN TRUE
  ELSE IF (edges.low.operator = "" \/ edges.low.operator = hilo)
          /\ relation(ltefn(hilo), compare(version, edges.low.semver, defaultOptions)).value
  THEN TRUE
  ELSE edges.low.operator = ecomp(hilo)
       /\ relation(ltfn(hilo), compare(version, edges.low.semver, defaultOptions)).value

\* for (i ...) over the clauses: false at the first clause that is not
\* outside, true after the last.
outsideLoop(version, range, hilo, options) ==
  \A i \in 1..Len(range.set) :
    ~notOutside(version,
                edgesLoop([high |-> Null, low |-> Null], range.set[i], 1, hilo, options),
                hilo)

\* outside after the two constructors.
outsideOf(version, range, hilo, options) ==
  IF version.threw THEN version
  ELSE IF range.threw THEN range
  ELSE IF hilo \notin {">", "<"}
  THEN Throw("TypeError", "Must provide a hilo val of \"<\" or \">\"")
  ELSE IF satisfies(version.value, range.value, options).value THEN Ret(FALSE)
  ELSE Ret(outsideLoop(version.value, range.value, hilo, options))

\* outside(version, range, hilo, options)
outside(version, range, hilo, options) ==
  outsideOf(SemVer(version, options), Range(range, options), hilo, options)

ltr(version, range, options) == outside(version, range, "<", options)

gtr(version, range, options) == outside(version, range, ">", options)

(***************************************************************************)
(* parse, valid, validRange                                                *)
(***************************************************************************)
\* try { return new SemVer(version, options) } catch { return null }
parseOf(version) == IF version.threw THEN Ret(Null) ELSE version

\* parse(version, options); re[FULL].test sees the string untrimmed.
parse(version, options) ==
  IF version.type = "SemVer" THEN Ret(version)
  ELSE IF version.type # "string" THEN Ret(Null)
  ELSE IF Len(version.str) > MAX_LENGTH THEN Ret(Null)
  ELSE IF ~FULL(version.str).matched THEN Ret(Null)
  ELSE parseOf(SemVer(version, options))

validOf(v) ==
  IF v.value.type = "SemVer" THEN Ret(JStr(v.value.version)) ELSE Ret(Null)

\* valid(version, options)
valid(version, options) ==
  IF version.type = "null" THEN Ret(Null) ELSE validOf(parse(version, options))

\* validRangeOf that lets the error of the constructor through.
validRangeOf_rethrow(range) ==
  IF range.threw THEN range
  ELSE Ret(JStr(IF range.value.range = "" THEN "*" ELSE range.value.range))

\* try { return new Range(range, options).range || "*" } catch { return null }
validRangeOf(range) ==
  IF range.threw THEN Ret(Null)
  ELSE Ret(JStr(IF range.value.range = "" THEN "*" ELSE range.value.range))

\* validRange(range, options)
validRange(range, options) ==
  IF range.type = "null" THEN Ret(Null) ELSE validRangeOf(Range(range, options))

(***************************************************************************)
(* The caller.  call is the call in progress (its operation and            *)
(* arguments), ret what it returned or threw; Idle between calls.          *)
(***************************************************************************)
Idle == [op |-> "idle"]

Init == call = Idle /\ ret = Idle

\* The call returns to the caller.
Return == call # Idle /\ call' = Idle /\ ret' = Idle

(***************************************************************************)
(* Ordering: inputs                                                        *)
(***************************************************************************)
\* Largest component of the main versions compared three at a time.
OrderMaxNum == 1
\* Most prerelease identifiers of the versions compared two at a time.
MaxPreLen == 2

versionString(M, m, p) ==
  NumberToString(M) \o "." \o NumberToString(m) \o "." \o NumberToString(p)

\* Main versions with at most one component that is not 0.
orderMains ==
  UNION {{versionString(k, 0, 0), versionString(0, k, 0), versionString(0, 0, k)} :
           k \in 0..OrderMaxNum}

orderVersions == {m \o pre : m \in orderMains, pre \in {"", "-alpha", "-alpha.1", "-1"}}

buildSuffixes == {"", "+b", "+1.x-y"}

\* Prerelease identifiers: numbers and strings, as the caller means them.
preIdentifiers == {JNum(2), JNum(11), JStr("alpha"), JStr("beta"), JStr("Beta")}

preSequences == UNION {[1..n -> preIdentifiers] : n \in 0..MaxPreLen}

prereleaseSuffix(ids) ==
  IF Len(ids) = 0 THEN ""
  ELSE "-" \o join([i \in 1..Len(ids) |-> JSString(ids[i])], ".")

(***************************************************************************)
(* Ordering: calls                                                         *)
(***************************************************************************)
\* compare on every pair the order laws need of three versions.
CompareThree ==
  /\ call = Idle
  /\ \E a \in orderVersions, b \in orderVersions, c \in orderVersions :
       /\ call' = [op |-> "compare3", a |-> a, b |-> b, c |-> c]
       /\ ret' = [aa |-> compare(JStr(a), JStr(a), defaultOptions),
                  ab |-> compare(JStr(a), JStr(b), defaultOptions),
                  ba |-> compare(JStr(b), JStr(a), defaultOptions),
                  bc |-> compare(JStr(b), JStr(c), defaultOptions),
                  ac |-> compare(JStr(a), JStr(c), defaultOptions)]

\* compare of two versions, and of the same two with build metadata added.
CompareWithBuild ==
  /\ call = Idle
  /\ \E a \in orderVersions, b \in orderVersions,
        ba \in buildSuffixes, bb \in buildSuffixes :
       /\ call' = [op |-> "compareBuilt", a |-> a, b |-> b, ba |-> ba, bb |-> bb]
       /\ ret' = [plain |-> compare(JStr(a), JStr(b), defaultOptions),
                  built |-> compare(JStr(a \o ba), JStr(b \o bb), defaultOptions)]

\* compare of two versions of one main version, written from their
\* prerelease identifiers.
ComparePrerelease ==
  /\ call = Idle
  /\ \E main \in {"1.0.0"}, A \in preSequences, B \in preSequences :
       /\ call' = [op |-> "comparePre", main |-> main, A |-> A, B |-> B]
       /\ ret' = compare(JStr(main \o prereleaseSuffix(A)),
                         JStr(main \o prereleaseSuffix(B)), defaultOptions)

\* Versions and build metadata for compareBuild.
builtVersions == {"1.0.0", "1.0.1", "1.0.0-alpha"}

builtSuffixes == {"", "+b", "+1", "+01", "+1.a", "+01.b", "+2.x-y"}

\* compareBuild both ways and compare on two versions with build metadata.
CompareBuild ==
  /\ call = Idle
  /\ \E a \in builtVersions, b \in builtVersions,
        ba \in builtSuffixes, bb \in builtSuffixes :
       /\ call' = [op |-> "compareBuild", a |-> a \o ba, b |-> b \o bb,
                   same |-> (a = b), ba |-> ba, bb |-> bb]
       /\ ret' = [ab |-> compareBuild(JStr(a \o ba), JStr(b \o bb), defaultOptions),
                  ba |-> compareBuild(JStr(b \o bb), JStr(a \o ba), defaultOptions),
                  plain |-> compare(JStr(a \o ba), JStr(b \o bb), defaultOptions)]

NextOrder ==
  CompareThree \/ CompareWithBuild \/ ComparePrerelease \/ CompareBuild \/ Return

SpecOrder == Init /\ [][NextOrder]_vars

(***************************************************************************)
(* Ordering: properties                                                    *)
(***************************************************************************)
\* C1: compare is a total order modulo build: compare(a,a) = 0,
\* compare(a,b) = -compare(b,a), compare(a,b) <= 0 and compare(b,c) <= 0
\* imply compare(a,c) <= 0, and build metadata added to a or b never changes
\* compare(a,b).
C1_TotalOrderModuloBuild ==
  /\ call.op = "compare3" =>
       /\ ~ret.aa.threw /\ ~ret.ab.threw /\ ~ret.ba.threw /\ ~ret.bc.threw /\ ~ret.ac.threw
       /\ ret.aa.value = 0
       /\ ret.ab.value = -ret.ba.value
       /\ (ret.ab.value <= 0 /\ ret.bc.value <= 0 => ret.ac.value <= 0)
  /\ call.op = "compareBuilt" =>
       /\ ~ret.plain.threw /\ ~ret.built.threw
       /\ ret.built.value = ret.plain.value

\* Three versions of one main version in strictly increasing order, the
\* last a release.
C1_Witness ==
  /\ call.op = "compare3"
  /\ call.a = "0.0.1-1" /\ call.b = "0.0.1-alpha.1" /\ call.c = "0.0.1"
  /\ ret.ab.value = -1 /\ ret.bc.value = -1 /\ ret.ac.value = -1 /\ ret.ba.value = 1

\* The order of two identifiers as the claim states it: numbers by value,
\* strings by code point at the first character that differs (a proper
\* prefix first), a number below a string.
identifierPrecedence(x, y) ==
  IF x.type = "number" /\ y.type = "number"
  THEN (IF x.num = y.num THEN 0 ELSE IF x.num < y.num THEN -1 ELSE 1)
  ELSE IF x.type = "number" THEN -1
  ELSE IF y.type = "number" THEN 1
  ELSE IF x.str = y.str THEN 0
  ELSE IF \E k \in 1..(Len(y.str)) :
            /\ k <= Len(x.str) + 1
            /\ SubSeq(x.str, 1, k - 1) = SubSeq(y.str, 1, k - 1)
            /\ (k = Len(x.str) + 1 \/ charCodeAt[Ch(x.str, k)] < charCodeAt[Ch(y.str, k)])
       THEN -1
  ELSE 1

\* The positions at which two identifier sequences differ.
differingPositions(A, B) ==
  {k \in 1..(Len(A) + Len(B)) :
     k > Len(A) \/ k > Len(B) \/ identifierPrecedence(A[k], B[k]) # 0}
     \ {k \in 1..(Len(A) + Len(B)) : k > Len(A) /\ k > Len(B)}

precedenceAt(A, B, k) ==
  IF k > Len(A) THEN -1
  ELSE IF k > Len(B) THEN 1
  ELSE identifierPrecedence(A[k], B[k])

\* The precedence of two prerelease sequences of one main version.
prereleasePrecedence(A, B) ==
  IF Len(A) = 0 /\ Len(B) = 0 THEN 0
  ELSE IF Len(A) = 0 THEN 1
  ELSE IF Len(B) = 0 THEN -1
  ELSE IF differingPositions(A, B) = {} THEN 0
  ELSE precedenceAt(A, B, Min(differingPositions(A, B)))

\* C2: with equal major.minor.patch a release is greater than any
\* prerelease and two releases tie; two prereleases are ordered by the first
\* position where their identifier sequences differ: a proper prefix is
\* less, numbers compare numerically, strings by code point, a number is
\* less than a string.
C2_PrereleasePrecedence ==
  call.op = "comparePre" =>
    /\ ~ret.threw
    /\ ret.value = prereleasePrecedence(call.A, call.B)

\* 1.0.0-beta.2 against 1.0.0-beta.11.
C2_Witness ==
  /\ call.op = "comparePre"
  /\ call.A = <<JStr("beta"), JNum(2)>> /\ call.B = <<JStr("beta"), JNum(11)>>
  /\ ret.value = -1

\* C26: compareBuild refines compare: it has the sign of compare(a,b) when that
\* is not 0, compareBuild(a,b) = -compareBuild(b,a), a version without build
\* metadata is below an otherwise equal one with build metadata, and
\* compareBuild(a,b) = 0 only when compare(a,b) = 0 and the build identifiers
\* of a and b are the same strings one by one.
C26_CompareBuildRefines ==
  call.op = "compareBuild" =>
    /\ ~ret.ab.threw /\ ~ret.ba.threw /\ ~ret.plain.threw
    /\ ret.plain.value # 0 => ret.ab.value = ret.plain.value
    /\ ret.ab.value = -ret.ba.value
    /\ (call.same /\ call.ba = "" /\ call.bb # "") => ret.ab.value = -1
    /\ ret.ab.value = 0 => (ret.plain.value = 0 /\ call.ba = call.bb)

(***************************************************************************)
(* Membership: inputs                                                      *)
(***************************************************************************)
\* The tokens the clauses are written from.
testTokens ==
  {">=1.0.0", "<2.0.0", ">1.2.3-beta", "<=1.2.3-beta", ">=2.5.0", "1.x", "*"}

\* Ranges of one or two clauses: "a", "a b", "a || b", "a b || c".
testRanges ==
  testTokens
    \cup {a \o " " \o b : a \in testTokens, b \in testTokens}
    \cup {a \o " || " \o b : a \in testTokens, b \in testTokens}
    \cup {a \o " " \o b \o " || " \o c :
            a \in testTokens, b \in testTokens, c \in testTokens}

\* Versions as a main version and a prerelease suffix.
testVersions ==
  {<<"1.0.0", "">>, <<"1.2.3", "">>, <<"2.0.0", "">>, <<"2.7.0", "">>,
   <<"1.2.3", "-alpha">>, <<"1.2.3", "-rc.1">>, <<"1.2.4", "-beta">>}

\* Version and range strings a caller may hand to satisfies.
satisfiesVersions ==
  {"1.2.3", " 1.2.3 ", "v1.2.3", "1.2.4-beta.1", "2.7.0+build",
   "not-a-version", "1.2", "", "01.2.3", "1.2.3.4", "1.2.3-"}

satisfiesRanges ==
  {"^1.2.0", "1.x || >=2.5.0", "*", "", ">=1.0.0", "1.2.3 - 2.0.0", "~1.2.4-beta",
   "not a range", ">=1.2.3 foo", "^^1", ">=1.0.0 || blerg", "1.2.3 - "}

(***************************************************************************)
(* Membership: calls                                                       *)
(***************************************************************************)
\* new Range(range, options).test(version)
RangeTest ==
  /\ call = Idle
  /\ \E range \in testRanges, version \in testVersions, includePrerelease \in BOOLEAN :
       /\ ~Range(JStr(range), [includePrerelease |-> includePrerelease]).threw
       /\ call' = [op |-> "Range.test",
                   this |-> Range(JStr(range), [includePrerelease |-> includePrerelease]).value,
                   main |-> version[1], pre |-> version[2]]
       /\ ret' = Range_test(
                   Range(JStr(range), [includePrerelease |-> includePrerelease]).value,
                   JStr(version[1] \o version[2]))

\* satisfies(version, range, options)
Satisfies ==
  /\ call = Idle
  /\ \E version \in satisfiesVersions, range \in satisfiesRanges,
        includePrerelease \in BOOLEAN :
       /\ call' = [op |-> "satisfies", version |-> version, range |-> range,
                   options |-> [includePrerelease |-> includePrerelease]]
       /\ ret' = satisfies(JStr(version), JStr(range),
                           [includePrerelease |-> includePrerelease])

\* Tokens with a wildcard major: the ones replaceXRange turns into "*" and the
\* ones it turns into "<0.0.0".
starTokens == {"*", "", ">=*", "<=x", ">=X", "<=*", "=x"}

noneTokens == {">*", "<x", "<*", ">X"}

starVersions ==
  {"0.0.0", "0.0.1", "1.2.3", "0.0.0-0", "0.0.0-alpha", "1.2.3-alpha"}

\* satisfies(version, token, options) with a wildcard token.
SatisfiesStar ==
  /\ call = Idle
  /\ \E version \in starVersions, token \in starTokens \cup noneTokens,
        includePrerelease \in BOOLEAN :
       /\ call' = [op |-> "satisfies star", version |-> version, range |-> token,
                   options |-> [includePrerelease |-> includePrerelease],
                   rewritten |->
                     Range(JStr(token), [includePrerelease |-> includePrerelease])]
       /\ ret' = satisfies(JStr(version), JStr(token),
                           [includePrerelease |-> includePrerelease])

NextTest == RangeTest \/ Satisfies \/ SatisfiesStar \/ Return

SpecTest == Init /\ [][NextTest]_vars

(***************************************************************************)
(* Membership: properties                                                  *)
(***************************************************************************)
\* The version of a Range.test call, parsed.
testedVersion == SemVer(JStr(call.main \o call.pre), defaultOptions).value

\* Every comparator of clause i of the receiver returns test(v) = true.
clausePasses(i) ==
  \A j \in 1..Len(call.this.set[i]) :
    /\ ~Comparator_test(call.this.set[i][j], JStr(call.main \o call.pre)).threw
    /\ Comparator_test(call.this.set[i][j], JStr(call.main \o call.pre)).value

\* Comparator j of clause i has a semver with the major.minor.patch of v and
\* a prerelease.
pins(i, j) ==
  /\ call.this.set[i][j].semver.type = "SemVer"
  /\ Len(call.this.set[i][j].semver.prerelease) > 0
  /\ call.this.set[i][j].semver.major = testedVersion.major
  /\ call.this.set[i][j].semver.minor = testedVersion.minor
  /\ call.this.set[i][j].semver.patch = testedVersion.patch

\* C3: for a release version v, R.test(v) is true exactly when at least one
\* clause of R.set has every one of its comparators returning test(v) = true.
C3_OrOfAnds ==
  call.op = "Range.test" /\ call.pre = "" =>
    /\ ~ret.threw
    /\ ret.value = (\E i \in 1..Len(call.this.set) : clausePasses(i))

\* A release that fails the first clause and passes the second.
C3_Witness ==
  /\ call.op = "Range.test" /\ call.pre = ""
  /\ call.this.raw = "1.x || >=2.5.0" /\ call.main = "2.7.0"
  /\ Len(call.this.set) = 2 /\ Len(call.this.set[1]) = 2
  /\ ~clausePasses(1) /\ clausePasses(2)
  /\ ret.value = TRUE

\* C4 as stated: without includePrerelease a prerelease version that passes
\* every comparator of some clause satisfies the Range if and only if a
\* comparator in some clause of the Range has its major.minor.patch and a
\* prerelease.
C4_PinInSomeClause ==
  (/\ call.op = "Range.test" /\ call.pre # ""
   /\ ~call.this.options.includePrerelease
   /\ \E i \in 1..Len(call.this.set) : clausePasses(i)) =>
    /\ ~ret.threw
    /\ ret.value = (\E i \in 1..Len(call.this.set) :
                      \E j \in 1..Len(call.this.set[i]) : pins(i, j))

\* C4: without includePrerelease a prerelease version satisfies the Range
\* if and only if some clause has every comparator passing and that same
\* clause has a comparator with the version's major.minor.patch and a
\* prerelease; with includePrerelease it satisfies if and only if some
\* clause has every comparator passing.
C4_PinInPassingClause ==
  call.op = "Range.test" /\ call.pre # "" =>
    /\ ~ret.threw
    /\ ret.value =
         (\E i \in 1..Len(call.this.set) :
            /\ clausePasses(i)
            /\ \/ call.this.options.includePrerelease
               \/ \E j \in 1..Len(call.this.set[i]) : pins(i, j))

\* 1.2.3-rc.1 against ">=1.0.0 || >1.2.3-beta": the first clause passes
\* and pins nothing, the second passes and pins 1.2.3.
C4_Witness ==
  /\ call.op = "Range.test" /\ call.main = "1.2.3" /\ call.pre = "-rc.1"
  /\ ~call.this.options.includePrerelease
  /\ call.this.raw = ">=1.0.0 || >1.2.3-beta"
  /\ clausePasses(1) /\ ~pins(1, 1)
  /\ clausePasses(2) /\ pins(2, 1)
  /\ ret.value = TRUE

\* C10: satisfies returns a boolean and never raises, and returns false
\* whenever the version or the range is malformed.
C10_SatisfiesNeverRaises ==
  call.op = "satisfies" =>
    /\ ~ret.threw
    /\ ret.value \in BOOLEAN
    /\ (\/ SemVer(JStr(call.version), call.options).threw
        \/ Range(JStr(call.range), call.options).threw) => ret.value = FALSE

\* C24: a wildcard token with no operator, with "=", ">=" or "<=" is removed and
\* the range matches every release version; a wildcard major after ">" or "<" is
\* rewritten to "<0.0.0" and the range is satisfied by no version, whether
\* includePrerelease is set or not.
isRelease(version) == parse(JStr(version), defaultOptions).value.prerelease = <<>>

C24_StarAllOrNothing ==
  call.op = "satisfies star" =>
    /\ ~call.rewritten.threw
    /\ call.range \in starTokens =>
         /\ call.rewritten.value.range = ""
         /\ isRelease(call.version) => ret = Ret(TRUE)
    /\ call.range \in noneTokens =>
         /\ call.rewritten.value.range = "<0.0.0"
         /\ ret = Ret(FALSE)

(***************************************************************************)
(* Shorthand ranges: inputs                                                *)
(***************************************************************************)
\* Largest component of the versions in caret, tilde and x-range tokens.
ShortMaxNum == 2
\* Largest component of the two ends of a hyphen range.
HyphenMaxNum == 1

\* <<M, m, p>> with components up to n.
triples(n) == (0..n) \X (0..n) \X (0..n)

\* <<M, m, p>>, <<M, m>> and <<M>>.
partials(n) == UNION {[1..k -> 0..n] : k \in 1..3}

\* M.m.p, M.m or M.
partialString(t) == join([i \in 1..Len(t) |-> NumberToString(t[i])], ".")

\* The ways to write a component that is left out.
wildcards == {"", "x", "X", "*"}

\* gtlt, then M or M.m, then the wildcards for the minor and the patch.
xrangeToken(gtlt, t, wm, wp) ==
  gtlt \o partialString(t)
    \o (IF wm = "" THEN "" ELSE "." \o wm)
    \o (IF wp = "" THEN "" ELSE "." \o wp)

\* A partial version with 0 for the components left out.
zeroFilled(t) == [i \in 1..3 |-> IF i <= Len(t) THEN t[i] ELSE 0]

\* The lower end is not above the upper end.
inOrder(from, to) ==
  \/ zeroFilled(from)[1] < zeroFilled(to)[1]
  \/ /\ zeroFilled(from)[1] = zeroFilled(to)[1]
     /\ \/ zeroFilled(from)[2] < zeroFilled(to)[2]
        \/ /\ zeroFilled(from)[2] = zeroFilled(to)[2]
           /\ zeroFilled(from)[3] <= zeroFilled(to)[3]

(***************************************************************************)
(* Shorthand ranges: calls                                                 *)
(***************************************************************************)
\* satisfies(v, "^M.m.p")
SatisfiesCaret ==
  /\ call = Idle
  /\ \E t \in triples(ShortMaxNum), v \in triples(ShortMaxNum + 1) :
       /\ call' = [op |-> "caret", t |-> t, v |-> v, range |-> "^" \o partialString(t)]
       /\ ret' = satisfies(JStr(partialString(v)), JStr("^" \o partialString(t)),
                           defaultOptions)

\* satisfies(v, "~M.m.p"), satisfies(v, "~M.m"), satisfies(v, "~M")
SatisfiesTilde ==
  /\ call = Idle
  /\ \E t \in partials(ShortMaxNum), v \in triples(ShortMaxNum + 1) :
       /\ call' = [op |-> "tilde", t |-> t, v |-> v, range |-> "~" \o partialString(t)]
       /\ ret' = satisfies(JStr(partialString(v)), JStr("~" \o partialString(t)),
                           defaultOptions)

\* satisfies(v, "A - B") with the ends in order.
SatisfiesHyphen ==
  /\ call = Idle
  /\ \E from \in partials(HyphenMaxNum), to \in partials(HyphenMaxNum),
        v \in triples(HyphenMaxNum + 1) :
       /\ inOrder(from, to)
       /\ call' = [op |-> "hyphen", from |-> from, to |-> to, v |-> v,
                   range |-> partialString(from) \o " - " \o partialString(to)]
       /\ ret' = satisfies(JStr(partialString(v)),
                           JStr(partialString(from) \o " - " \o partialString(to)),
                           defaultOptions)

\* new Range(token) of an x-range token with or without an operator.
RangeOfXRange ==
  /\ call = Idle
  /\ \E gtlt \in {"", ">", ">=", "<", "<="}, t \in partials(ShortMaxNum),
        wm \in wildcards, wp \in wildcards :
       /\ Len(t) < 3
       /\ Len(t) = 2 => wm = ""
       /\ (Len(t) = 1 /\ wm = "") => wp = ""
       /\ call' = [op |-> "xrange", gtlt |-> gtlt, t |-> t, wm |-> wm, wp |-> wp,
                   range |-> xrangeToken(gtlt, t, wm, wp)]
       /\ ret' = Range(JStr(xrangeToken(gtlt, t, wm, wp)), defaultOptions)

NextShorthand == SatisfiesCaret \/ SatisfiesTilde \/ RangeOfXRange \/ Return

SpecShorthand == Init /\ [][NextShorthand]_vars

NextHyphen == SatisfiesHyphen \/ Return

SpecHyphen == Init /\ [][NextHyphen]_vars

(***************************************************************************)
(* Shorthand ranges: properties                                            *)
(***************************************************************************)
\* a < b and a <= b on <<major, minor, patch>>.
tripleLess(a, b) ==
  \/ a[1] < b[1]
  \/ a[1] = b[1] /\ a[2] < b[2]
  \/ a[1] = b[1] /\ a[2] = b[2] /\ a[3] < b[3]

tripleLeq(a, b) == a = b \/ tripleLess(a, b)

\* The bound above "M": (M+1).0.0; above "M.m" and "M.m.p": M.(m+1).0.
nextUnit(t) == IF Len(t) = 1 THEN <<t[1] + 1, 0, 0>> ELSE <<t[1], t[2] + 1, 0>>

\* The bound U of a caret range on M.m.p.
caretBound(t) ==
  IF t[1] > 0 THEN <<t[1] + 1, 0, 0>>
  ELSE IF t[2] > 0 THEN <<0, t[2] + 1, 0>>
  ELSE <<0, 0, t[3] + 1>>

\* C5: for every full version M.m.p and release version v, satisfies(v,
\* "^M.m.p") is true exactly when M.m.p <= v < U, with U = (M+1).0.0 if
\* M > 0, 0.(m+1).0 if M = 0 and m > 0, and 0.0.(p+1) if M = 0 and m = 0.
C5_Caret ==
  call.op = "caret" =>
    /\ ~ret.threw
    /\ ret.value = (tripleLeq(call.t, call.v) /\ tripleLess(call.v, caretBound(call.t)))

\* 0.3.0 is the first version above ^0.2.2.
C5_Witness ==
  /\ call.op = "caret" /\ call.range = "^0.2.2"
  /\ call.v = <<0, 3, 0>> /\ ret.value = FALSE

\* C6: for every release version v, satisfies(v, "~M.m.p") is true exactly
\* when M.m.p <= v < M.(m+1).0, satisfies(v, "~M.m") exactly when
\* M.m.0 <= v < M.(m+1).0, and satisfies(v, "~M") exactly when
\* M.0.0 <= v < (M+1).0.0.
C6_Tilde ==
  call.op = "tilde" =>
    /\ ~ret.threw
    /\ ret.value = (/\ tripleLeq(zeroFilled(call.t), call.v)
                    /\ tripleLess(call.v, nextUnit(call.t)))

\* 1.2.3 is in ~1.2.
C6_Witness ==
  /\ call.op = "tilde" /\ call.range = "~1.2"
  /\ call.v = <<1, 2, 3>> /\ ret.value = TRUE

xrangeMeaning(gtlt, t) ==
  IF Len(t) = 1
  THEN (CASE gtlt = ">" -> ">=" \o versionString(t[1] + 1, 0, 0)
          [] gtlt = "<=" -> "<" \o versionString(t[1] + 1, 0, 0)
          [] gtlt = "" -> ">=" \o versionString(t[1], 0, 0)
                            \o " <" \o versionString(t[1] + 1, 0, 0))
  ELSE (CASE gtlt = ">" -> ">=" \o versionString(t[1], t[2] + 1, 0)
          [] gtlt = "<=" -> "<" \o versionString(t[1], t[2] + 1, 0)
          [] gtlt = ">=" -> ">=" \o versionString(t[1], t[2], 0)
          [] gtlt = "<" -> "<" \o versionString(t[1], t[2], 0)
          [] gtlt = "" -> ">=" \o versionString(t[1], t[2], 0)
                            \o " <" \o versionString(t[1], t[2] + 1, 0))

\* C8: ">M.m" is equivalent to ">=M.(m+1).0", ">M" to ">=(M+1).0.0", "<=M.m"
\* to "<M.(m+1).0", "<=M" to "<(M+1).0.0", ">=M.m" to ">=M.m.0", "<M.m" to
\* "<M.m.0", a bare "M.m" or "M.m.x" to ">=M.m.0 <M.(m+1).0" and a bare "M"
\* or "M.x.x" to ">=M.0.0 <(M+1).0.0": the Range of the token has the
\* comparators of the Range of its rewriting, whether the components left
\* out are missing or written x, X or *.
C8_XRange ==
  (call.op = "xrange" /\ (Len(call.t) = 2 \/ call.gtlt \in {"", ">", "<="})) =>
    /\ ~ret.threw
    /\ ret.value.range = xrangeMeaning(call.gtlt, call.t)
    /\ ret.value.set =
         Range(JStr(xrangeMeaning(call.gtlt, call.t)), defaultOptions).value.set

\* "<=1.2.*" becomes "<1.3.0".
C8_Witness ==
  /\ call.op = "xrange"
  /\ call.range = "<=1.2.*" /\ ~ret.threw /\ ret.value.range = "<1.3.0"

(***************************************************************************)
(* Intersection: inputs, calls and properties                              *)
(***************************************************************************)
\* Comparator strings: exact versions, a prerelease, bounds and any.
intersectComparators ==
  {"", "1.2.3", "1.2.3-alpha", ">=1.0.0", ">1.2.3", "<2.0.0", "<=1.2.3",
   ">=1.2.3-alpha", "<1.0.0"}

\* Valid ranges: the comparators, "*" and ranges of several comparators.
intersectRanges ==
  intersectComparators
    \cup {"*", "^1.2.0", "~1.2.3", "1.x || >=2.5.0", ">=1.0.0 <1.0.0", "1.0.0 - 1.2.3"}

\* intersects(R1, R2) and intersects(R2, R1)
Intersects ==
  /\ call = Idle
  /\ \E range1 \in intersectRanges, range2 \in intersectRanges :
       /\ call' = [op |-> "intersects", range1 |-> range1, range2 |-> range2]
       /\ ret' = [forward |-> intersects(JStr(range1), JStr(range2), defaultOptions),
                  backward |-> intersects(JStr(range2), JStr(range1), defaultOptions)]

\* c1.intersects(c2, options) and c2.intersects(c1, options)
ComparatorIntersects ==
  /\ call = Idle
  /\ \E comp1 \in intersectComparators, comp2 \in intersectComparators,
        includePrerelease \in BOOLEAN :
       /\ call' = [op |-> "Comparator.intersects", comp1 |-> comp1, comp2 |-> comp2,
                   options |-> [includePrerelease |-> includePrerelease]]
       /\ ret' = [forward |->
                    Comparator_intersects(
                      Comparator(comp1, [includePrerelease |-> includePrerelease]).value,
                      Comparator(comp2, [includePrerelease |-> includePrerelease]).value,
                      [includePrerelease |-> includePrerelease]),
                  backward |->
                    Comparator_intersects(
                      Comparator(comp2, [includePrerelease |-> includePrerelease]).value,
                      Comparator(comp1, [includePrerelease |-> includePrerelease]).value,
                      [includePrerelease |-> includePrerelease])]

\* Comparators of the clauses given to isSatisfiable.
satisfiableComparators ==
  {"", "1.2.3-alpha", ">=1.2.3", ">1.2.3", "<=1.2.3", "<2.0.0", "<1.0.0"}

ClauseMaxLen == 3

satisfiableClauses ==
  UNION {[1..n -> satisfiableComparators] : n \in 1..ClauseMaxLen}

\* The Comparator objects of a clause, and the clause listed backwards.
comparatorsOf(clause) == [i \in 1..Len(clause) |-> Comparator(clause[i], defaultOptions).value]

reversed(seq) == [i \in 1..Len(seq) |-> seq[Len(seq) + 1 - i]]

\* isSatisfiable(comparators) of a clause and of the same clause listed
\* in the opposite order; options is left undefined as in intersects.
IsSatisfiable ==
  /\ call = Idle
  /\ \E clause \in satisfiableClauses :
       /\ call' = [op |-> "isSatisfiable", comparators |-> clause]
       /\ ret' = [satisfiable |-> isSatisfiable(comparatorsOf(clause), defaultOptions),
                  satisfiableReversed |->
                    isSatisfiable(comparatorsOf(reversed(clause)), defaultOptions)]

NextIntersects == Intersects \/ ComparatorIntersects \/ IsSatisfiable \/ Return

SpecIntersects == Init /\ [][NextIntersects]_vars

\* C9: for all valid ranges R1 and R2, intersects(R1, R2) =
\* intersects(R2, R1), and Comparator.intersects gives the same answer with
\* receiver and argument swapped.
C9_IntersectsSymmetric ==
  call.op \in {"intersects", "Comparator.intersects"} =>
    /\ ~ret.forward.threw /\ ~ret.backward.threw
    /\ ret.forward.value = ret.backward.value

\* Versions among which one passing two comparators, or satisfying two
\* ranges, is looked for: for every two comparators of the inputs that a
\* version passes together, one of these does.
intersectCandidates ==
  {SemVer(JStr(v), defaultOptions).value :
     v \in {"0.0.0", "0.9.0", "1.0.0", "1.2.3-alpha", "1.2.3", "1.2.4", "2.0.0"}}

\* Some version passes the test of both comparators.
passBoth(comp1, comp2) ==
  \E v \in intersectCandidates :
    Comparator_test(comp1, v).value /\ Comparator_test(comp2, v).value

\* C21: a.intersects(b) is true if and only if some version passes a.test
\* and b.test.
C21_ComparatorIntersectsExact ==
  call.op = "Comparator.intersects" =>
    /\ ~ret.forward.threw
    /\ ret.forward.value
         = passBoth(Comparator(call.comp1, call.options).value,
                    Comparator(call.comp2, call.options).value)

\* Some version satisfies both ranges.
satisfyBoth(range1, range2) ==
  \E v \in intersectCandidates :
    /\ satisfies(JStr(v.version), JStr(range1), defaultOptions).value
    /\ satisfies(JStr(v.version), JStr(range2), defaultOptions).value

\* C28: under default options intersects(R1, R2) is true if and only if some
\* version v has satisfies(v, R1) and satisfies(v, R2).
C28_IntersectsExact ==
  call.op = "intersects" =>
    /\ ~ret.forward.threw
    /\ ret.forward.value = satisfyBoth(call.range1, call.range2)

\* Every two distinct comparators of the clause intersect, whichever of the
\* two is the receiver.
pairwiseIntersecting(comparators) ==
  \A i \in 1..Len(comparators) : \A j \in 1..Len(comparators) :
    i # j => Comparator_intersects(comparators[i], comparators[j], defaultOptions).value

\* C22: isSatisfiable is true if and only if every two distinct comparators
\* of the clause intersect; a clause of one comparator is satisfiable; the
\* result is the same with the comparators listed in another order.
C22_PairwiseAnyOrder ==
  call.op = "isSatisfiable" =>
    /\ ret.satisfiable = pairwiseIntersecting(comparatorsOf(call.comparators))
    /\ Len(call.comparators) = 1 => ret.satisfiable
    /\ ret.satisfiable = ret.satisfiableReversed

\* Every two comparators of the clause have a version passing both.
pairwisePassing(comparators) ==
  \A i \in 1..Len(comparators) : \A j \in 1..Len(comparators) :
    passBoth(comparators[i], comparators[j])

\* Some version passes every comparator of the clause.
jointlyPassing(comparators) ==
  \E v \in intersectCandidates :
    \A i \in 1..Len(comparators) : Comparator_test(comparators[i], v).value

\* C23 as stated: some clause of three or more comparators is accepted by
\* isSatisfiable although no version passes all of its comparators, while
\* every pair of them has a version passing both.  An existence statement
\* over the clauses of the inputs, evaluated between calls.
C23_PairwiseIncomplete ==
  call = Idle =>
    \E clause \in satisfiableClauses :
      /\ Len(clause) >= 3
      /\ isSatisfiable(comparatorsOf(clause), defaultOptions)
      /\ pairwisePassing(comparatorsOf(clause))
      /\ ~jointlyPassing(comparatorsOf(clause))

\* C23: a clause whose comparators have, two by two, a version passing both
\* has a version passing all of them, so isSatisfiable accepts no clause
\* that is satisfiable pair by pair and unsatisfiable as a whole.
C23_PairwiseIsJoint ==
  (call.op = "isSatisfiable" /\ pairwisePassing(comparatorsOf(call.comparators))) =>
    jointlyPassing(comparatorsOf(call.comparators))

\* >1.2.3 <2.0.0 "" is accepted, its pairs have common versions and 1.2.4
\* passes all three.
C23_Witness ==
  /\ call.op = "isSatisfiable" /\ call.comparators = <<">1.2.3", "<2.0.0", "">>
  /\ ret.satisfiable
  /\ pairwisePassing(comparatorsOf(call.comparators))
  /\ jointlyPassing(comparatorsOf(call.comparators))

(***************************************************************************)
(* Parsing: inputs, calls and properties                                   *)
(***************************************************************************)
twice(s) == s \o s

RECURSIVE repeat(_, _)
\* s written n times.
repeat(s, n) ==
  IF n = 0 THEN ""
  ELSE IF n % 2 = 0 THEN twice(repeat(s, n \div 2))
  ELSE s \o repeat(s, n - 1)

\* The parts a version string is written from, good and bad.
goodPrefixes == {"", "v"}
goodMains == {"1.2.3", "0.0.0", "10.20.30"}
goodPrereleases == {"", "-alpha", "-alpha.1", "-0.x-y.7"}
goodBuilds == {"", "+b.01"}

\* A prerelease that makes "1.2.3-..." n characters long.
longPrerelease(n) == "-" \o repeat("a", n - 6)

parsePrefixes == goodPrefixes \cup {" ", "="}
parseMains == goodMains \cup {"01.2.3", "1.2", "1.2.3.4", "1.x.3"}
parsePrereleases == goodPrereleases \cup {"-01", "-", "-a..b"}
parseBuilds == goodBuilds \cup {"+", " "}

\* parse(s) and valid(s) of a string written from its parts.
Parse ==
  /\ call = Idle
  /\ \E prefix \in parsePrefixes, main \in parseMains, pre \in parsePrereleases,
        build \in parseBuilds :
       /\ call' = [op |-> "parse", prefix |-> prefix, main |-> main, pre |-> pre,
                   build |-> build, version |-> prefix \o main \o pre \o build]
       /\ ret' = [parse |-> parse(JStr(prefix \o main \o pre \o build), defaultOptions),
                  valid |-> valid(JStr(prefix \o main \o pre \o build), defaultOptions)]

\* parse(s) and valid(s) of strings of MAX_LENGTH characters and more.
ParseLong ==
  /\ call = Idle
  /\ \E n \in {MAX_LENGTH - 1, MAX_LENGTH, MAX_LENGTH + 1, MAX_LENGTH + 2} :
       /\ call' = [op |-> "parse", prefix |-> "", main |-> "1.2.3",
                   pre |-> longPrerelease(n), build |-> "",
                   version |-> "1.2.3" \o longPrerelease(n)]
       /\ ret' = [parse |-> parse(JStr("1.2.3" \o longPrerelease(n)), defaultOptions),
                  valid |-> valid(JStr("1.2.3" \o longPrerelease(n)), defaultOptions)]

\* validRange(r)
ValidRange ==
  /\ call = Idle
  /\ \E range \in satisfiesRanges \cup testTokens \cup intersectRanges :
       /\ call' = [op |-> "validRange", range |-> range]
       /\ ret' = validRange(JStr(range), defaultOptions)

\* parse(format(parse(s))) after parse(s).
reparse(v) ==
  IF v.value.type # "SemVer" THEN Ret(Null)
  ELSE parse(JStr(format(v.value.major, v.value.minor, v.value.patch, v.value.prerelease)),
             defaultOptions)

\* parse(s), then parse of its format.
RoundTrip ==
  /\ call = Idle
  /\ \E prefix \in goodPrefixes, main \in goodMains, pre \in goodPrereleases,
        build \in goodBuilds :
       /\ call' = [op |-> "roundTrip", version |-> prefix \o main \o pre \o build]
       /\ ret' = [first |-> parse(JStr(prefix \o main \o pre \o build), defaultOptions),
                  second |-> reparse(parse(JStr(prefix \o main \o pre \o build),
                                           defaultOptions))]

\* Range strings with a token that is no comparator after the rewriting.
malformedRanges ==
  {"not a ^valid range !!", "blerg", ">=1.0.0 || blerg", ">>1.2.3", "1.2.3 foo",
   "^^1", "1.2.3 - "}

\* Tokens outside the comparator grammar.
malformedComparators == {"not", "^valid", "!!", "blerg", ">>1.2.3", "1.2", "^1.2.3"}

\* Range strings with nothing written on one side of a "||".
emptyClauseRanges == {"1.2.3 || ", "|| 1.2.3", "||", "1.2.3 || || 2.0.0", " ||>=1.0.0"}

\* new Range(range)
NewRange ==
  /\ call = Idle
  /\ \E range \in malformedRanges \cup intersectRanges \cup emptyClauseRanges :
       /\ call' = [op |-> "newRange", range |-> range]
       /\ ret' = Range(JStr(range), defaultOptions)

\* new Comparator(comp)
NewComparator ==
  /\ call = Idle
  /\ \E comp \in malformedComparators \cup intersectComparators :
       /\ call' = [op |-> "newComparator", comp |-> comp]
       /\ ret' = Comparator(comp, defaultOptions)

NextParse ==
  Parse \/ ParseLong \/ ValidRange \/ RoundTrip \/ NewRange \/ NewComparator \/ Return

SpecParse == Init /\ [][NextParse]_vars

\* The string of a parse call matches the version grammar.
grammatical ==
  /\ call.prefix \in goodPrefixes /\ call.main \in goodMains
  /\ call.build \in goodBuilds
  /\ \/ call.pre \in goodPrereleases
     \/ \E n \in 7..(MAX_LENGTH + 2) : call.pre = longPrerelease(n)

\* C11: parse, valid and validRange never raise; parse(s) and valid(s)
\* return null for every string that does not match the version grammar or
\* is longer than 256 characters, and validRange(r) returns null for every
\* range string that the Range constructor rejects.
C11_NeverRaise ==
  /\ call.op = "parse" =>
       /\ ~ret.parse.threw /\ ~ret.valid.threw
       /\ (~grammatical \/ Len(call.version) > 256) =>
            (ret.parse.value = Null /\ ret.valid.value = Null)
  /\ call.op = "validRange" =>
       /\ ~ret.threw
       /\ Range(JStr(call.range), defaultOptions).threw => ret.value = Null

\* A well-formed version of 257 characters is refused.
C11_Witness ==
  /\ call.op = "parse" /\ grammatical /\ Len(call.version) = 257
  /\ ret.parse.value = Null /\ ret.valid.value = Null

\* C18: for every valid version string s, parsing format(parse(s)) succeeds
\* and yields a version v2 with compare(v2, parse(s)) = 0, and format of v2
\* is the same string.
C18_RoundTrip ==
  call.op = "roundTrip" =>
    /\ ~ret.first.threw /\ ret.first.value.type = "SemVer"
    /\ ~ret.second.threw /\ ret.second.value.type = "SemVer"
    /\ SemVer_compare(ret.second.value, ret.first.value) = 0
    /\ compare(ret.second.value, ret.first.value, defaultOptions) = Ret(0)
    /\ format(ret.second.value.major, ret.second.value.minor, ret.second.value.patch,
              ret.second.value.prerelease)
         = format(ret.first.value.major, ret.first.value.minor, ret.first.value.patch,
                  ret.first.value.prerelease)

\* v1.2.3-0.x-y.7+b.01 becomes 1.2.3-0.x-y.7.
C18_Witness ==
  /\ call.op = "roundTrip" /\ call.version = "v1.2.3-0.x-y.7+b.01"
  /\ ret.first.value.version = "1.2.3-0.x-y.7"
  /\ ret.second.value.raw = "1.2.3-0.x-y.7"
  /\ ret.second.value.prerelease = <<JNum(0), JStr("x-y"), JNum(7)>>


\* C12: constructing a Range from a string with a token outside the
\* comparator grammar fails with "Invalid SemVer Range", and constructing a
\* Comparator from such a token fails with "Invalid comparator".
C12_ErrorMessages ==
  /\ (call.op = "newRange" /\ call.range \in malformedRanges) =>
       ret.threw /\ startsWith(ret.message, "Invalid SemVer Range")
  /\ (call.op = "newComparator" /\ call.comp \in malformedComparators) =>
       ret.threw /\ startsWith(ret.message, "Invalid comparator")

\* C25: constructing a Range from a string in which some clause between the
\* "||" separators is empty fails, so no constructed Range has a clause that was
\* written without a comparator token.
C25_EmptyClauseRejected ==
  (call.op = "newRange" /\ call.range \in emptyClauseRanges) => ret.threw

(***************************************************************************)
(* Increment: inputs, calls and properties                                 *)
(***************************************************************************)
incVersions ==
  {"0.0.0", "1.2.3", "1.2.0", "1.0.0", "1.2.3-alpha", "1.2.3-alpha.1", "1.0.0-5",
   "1.2.0-0", "1.2.3-beta.1.x+build.7", "1.2.3-beta+b", "v1.2.3+b.01"}

\* The release types of the switch and three it does not have.
incReleases == releaseTypes \cup {"", "bogus", "MAJOR"}

incIdentifiers == {"", "alpha", "beta"}

\* new SemVer(v) of a valid version string.
semverOf(v) == SemVer(JStr(v), defaultOptions).value

\* An object that no call is made on.
bystander == semverOf("9.9.9-rc.1+x")

\* <receiver>.inc(release, identifier), the receiver at either address.
SemVerInc ==
  /\ call = Idle
  /\ \E v \in incVersions, this \in 1..2, release \in incReleases,
        identifier \in incIdentifiers :
       /\ call' = [op |-> "SemVer.inc", this |-> this, release |-> release,
                   identifier |-> identifier,
                   heap |-> IF this = 1 THEN <<semverOf(v), bystander>>
                            ELSE <<bystander, semverOf(v)>>]
       /\ ret' = SemVer_inc(IF this = 1 THEN <<semverOf(v), bystander>>
                            ELSE <<bystander, semverOf(v)>>,
                            this, release, identifier)

\* inc(version, release, options, identifier) of a string or of a SemVer
\* object; options is an options object or the identifier.
Inc ==
  /\ call = Idle
  /\ \E v \in incVersions \cup {"1.2", "not a version"},
        version \in {JStr("")} \cup {Ref(1)},
        release \in incReleases,
        options \in {defaultOptions, JStr("rc")},
        identifier \in incIdentifiers :
       /\ version.type = "ref" => v \in incVersions
       /\ call' = [op |-> "inc", release |-> release, options |-> options,
                   identifier |-> identifier,
                   version |-> IF version.type = "ref" THEN version ELSE JStr(v),
                   heap |-> IF version.type = "ref" THEN <<semverOf(v)>> ELSE <<>>]
       /\ ret' = inc(IF version.type = "ref" THEN <<semverOf(v)>> ELSE <<>>,
                     IF version.type = "ref" THEN version ELSE JStr(v),
                     release, options, identifier)

NextInc == SemVerInc \/ Inc \/ Return

SpecInc == Init /\ [][NextInc]_vars

\* The objects of the heap before the call are as they were.
heapKept == \A a \in 1..Len(call.heap) : ret.heap[a] = call.heap[a]

\* C13 as stated: with an unsupported release type both SemVer.inc and the
\* top-level inc raise an error naming the release type, and the version
\* they were called on is unchanged.
C13_BothRaise ==
  (call.op \in {"SemVer.inc", "inc"} /\ call.release \notin releaseTypes) =>
    /\ ret.threw
    /\ ret.message = "invalid increment argument: " \o call.release
    /\ heapKept

\* C13: with an unsupported release type SemVer.inc raises an Error naming
\* the release type and leaves its receiver unchanged; the top-level inc
\* returns null and leaves its argument unchanged.
C13_MethodRaisesFunctionNull ==
  /\ (call.op = "SemVer.inc" /\ call.release \notin releaseTypes) =>
       /\ ret.threw /\ ret.name = "Error"
       /\ ret.message = "invalid increment argument: " \o call.release
       /\ ret.heap = call.heap
  /\ (call.op = "inc" /\ call.release \notin releaseTypes) =>
       /\ ~ret.threw /\ ret.value = Null
       /\ heapKept

\* 1.2.3-alpha.inc("bogus") raises and the receiver is still 1.2.3-alpha.
C13_Witness ==
  /\ call.op = "SemVer.inc" /\ call.release = "bogus" /\ call.this = 1
  /\ call.heap[1].version = "1.2.3-alpha"
  /\ ret.threw /\ ret.message = "invalid increment argument: bogus"
  /\ ret.heap[1].version = "1.2.3-alpha"

\* The main version a release type "major", "minor" or "patch" leads to.
incrementedMain(v, release) ==
  IF release = "major"
  THEN <<IF v.minor # 0 \/ v.patch # 0 \/ v.prerelease = <<>> THEN v.major + 1
         ELSE v.major, 0, 0>>
  ELSE IF release = "minor"
  THEN <<v.major, IF v.patch # 0 \/ v.prerelease = <<>> THEN v.minor + 1 ELSE v.minor, 0>>
  ELSE <<v.major, v.minor, IF v.prerelease = <<>> THEN v.patch + 1 ELSE v.patch>>

\* C19: a successful SemVer.inc returns its receiver, whose fields hold the
\* incremented value, whose version and raw are the canonical formatting of
\* the fields and whose build is unchanged; no other object changes.
C19_IncInPlace ==
  (call.op = "SemVer.inc" /\ ~ret.threw) =>
    /\ ret.value = Ref(call.this)
    /\ Len(ret.heap) = Len(call.heap)
    /\ \A a \in 1..Len(call.heap) : a # call.this => ret.heap[a] = call.heap[a]
    /\ ret.heap[call.this].version # call.heap[call.this].version
    /\ call.release \in {"major", "minor", "patch"} =>
         /\ <<ret.heap[call.this].major, ret.heap[call.this].minor,
              ret.heap[call.this].patch>>
              = incrementedMain(call.heap[call.this], call.release)
         /\ ret.heap[call.this].prerelease = <<>>
    /\ call.release \in releaseTypes \ {"major", "minor", "patch"} =>
         Len(ret.heap[call.this].prerelease) > 0
    /\ ret.heap[call.this].version
         = format(ret.heap[call.this].major, ret.heap[call.this].minor,
                  ret.heap[call.this].patch, ret.heap[call.this].prerelease)
    /\ ret.heap[call.this].raw = ret.heap[call.this].version
    /\ ret.heap[call.this].build = call.heap[call.this].build
    /\ ret.heap[call.this].options = call.heap[call.this].options

\* 1.2.3-beta.1.x+build.7 .inc("prerelease", "beta") is the same object, now
\* 1.2.3-beta.2.x with raw rewritten and the build kept.
C19_Witness ==
  /\ call.op = "SemVer.inc" /\ call.this = 2 /\ call.release = "prerelease"
  /\ call.identifier = "beta"
  /\ call.heap[2].raw = "1.2.3-beta.1.x+build.7"
  /\ ret.value = Ref(2)
  /\ ret.heap[2].version = "1.2.3-beta.2.x"
  /\ ret.heap[2].raw = "1.2.3-beta.2.x"
  /\ ret.heap[2].build = <<"build", "7">>

\* The receiver of a SemVer.inc call before and after the call.
incBefore == call.heap[call.this]

incAfter == ret.heap[call.this]

incMain(v) == <<v.major, v.minor, v.patch>>

isPrerelease(v) == Len(v.prerelease) > 0

\* The position of the rightmost number of a prerelease, 0 when it has none.
rightmostNumber(pre) == Max({0} \cup {i \in 1..Len(pre) : pre[i].type = "number"})

\* C27: "patch" on a prerelease M.m.p-pre gives M.m.p and on a release
\* M.m.(p+1); "minor" on a prerelease with patch 0 gives M.m.0 and otherwise
\* M.(m+1).0; "major" on a prerelease with minor 0 and patch 0 gives M.0.0 and
\* otherwise (M+1).0.0; each leaves an empty prerelease.  "prerelease" on a
\* release does what "prepatch" does, M.m.(p+1)-0, and on a prerelease adds one
\* to its rightmost number or appends 0 when it has no number.
C27_FinishesPrerelease ==
  (call.op = "SemVer.inc" /\ ~ret.threw) =>
    /\ call.release = "patch" =>
         /\ incMain(incAfter)
              = <<incBefore.major, incBefore.minor,
                  IF isPrerelease(incBefore) THEN incBefore.patch ELSE incBefore.patch + 1>>
         /\ incAfter.prerelease = <<>>
         /\ incAfter.version = versionString(incAfter.major, incAfter.minor, incAfter.patch)
    /\ call.release = "minor" =>
         /\ incMain(incAfter)
              = <<incBefore.major,
                  IF isPrerelease(incBefore) /\ incBefore.patch = 0 THEN incBefore.minor
                  ELSE incBefore.minor + 1, 0>>
         /\ incAfter.prerelease = <<>>
         /\ incAfter.version = versionString(incAfter.major, incAfter.minor, incAfter.patch)
    /\ call.release = "major" =>
         /\ incMain(incAfter)
              = <<IF isPrerelease(incBefore) /\ incBefore.minor = 0 /\ incBefore.patch = 0
                  THEN incBefore.major ELSE incBefore.major + 1, 0, 0>>
         /\ incAfter.prerelease = <<>>
         /\ incAfter.version = versionString(incAfter.major, incAfter.minor, incAfter.patch)
    /\ (call.release = "prerelease" /\ ~isPrerelease(incBefore)) =>
         /\ ret = SemVer_inc(call.heap, call.this, "prepatch", call.identifier)
         /\ call.identifier = "" =>
              incAfter.version
                = versionString(incBefore.major, incBefore.minor, incBefore.patch + 1) \o "-0"
    /\ (call.release = "prerelease" /\ isPrerelease(incBefore) /\ call.identifier = "") =>
         /\ incMain(incAfter) = incMain(incBefore)
         /\ rightmostNumber(incBefore.prerelease) = 0 =>
              incAfter.prerelease = Append(incBefore.prerelease, JNum(0))
         /\ rightmostNumber(incBefore.prerelease) > 0 =>
              /\ Len(incAfter.prerelease) = Len(incBefore.prerelease)
              /\ \A i \in 1..Len(incBefore.prerelease) :
                   incAfter.prerelease[i]
                     = IF i = rightmostNumber(incBefore.prerelease)
                       THEN JNum(incBefore.prerelease[i].num + 1)
                       ELSE incBefore.prerelease[i]

\* 1.2.0-0 .inc("minor") finishes the prerelease: the receiver is 1.2.0.
C27_Witness ==
  /\ call.op = "SemVer.inc" /\ call.this = 1 /\ call.release = "minor"
  /\ call.identifier = ""
  /\ call.heap[1].version = "1.2.0-0"
  /\ ~ret.threw /\ ret.heap[1].version = "1.2.0"
  /\ ret.heap[1].prerelease = <<>>

\* The release types a caller of inc is offered.
publicReleases == releaseTypes \ {"pre"}

\* C30: for every valid version v, every release type among major, minor,
\* patch, premajor, preminor, prepatch and prerelease, and every identifier
\* (absent, v's first prerelease identifier, or another one), the version inc
\* returns compares strictly greater than v.
C30_IncMovesForward ==
  /\ (call.op = "SemVer.inc" /\ call.release \in publicReleases) =>
       /\ ~ret.threw
       /\ SemVer_compare(incAfter, incBefore) = 1
  /\ (call.op = "inc" /\ call.release \in publicReleases
        /\ ~SemVer(deref(call.heap, call.version), defaultOptions).threw) =>
       /\ ret.value # Null
       /\ compare(ret.value, deref(call.heap, call.version), defaultOptions) = Ret(1)

(***************************************************************************)
(* minVersion: inputs, calls and properties                                *)
(***************************************************************************)
minTokens ==
  {">=1.0.0", ">=2.0.0", ">1.2.3", ">1.2.3-alpha", "<2.0.0", "<0.0.0-0", "1.x", "*",
   "1.2.3", "^0.2.3"}

\* Ranges of one clause of one or two comparators, and of two clauses.
minRanges ==
  minTokens
    \cup {a \o " " \o b : a \in minTokens, b \in minTokens}
    \cup {a \o " || " \o b : a \in minTokens, b \in minTokens}
    \cup {"not a range", ">=1.0.0 || blerg"}

\* Versions among which a lower satisfying version is looked for.
minCandidates ==
  {semverOf(v) : v \in {"0.0.0-0", "0.0.0", "0.2.3", "1.0.0", "1.2.3-alpha",
                        "1.2.3-alpha.0", "1.2.3", "1.2.4", "1.9.0", "2.0.0", "2.0.1"}}

\* minVersion(range)
MinVersion ==
  /\ call = Idle
  /\ \E range \in minRanges :
       /\ call' = [op |-> "minVersion", range |-> range]
       /\ ret' = minVersion(JStr(range), defaultOptions)

NextMin == MinVersion \/ Return

SpecMin == Init /\ [][NextMin]_vars

\* The Range constructor accepted the range of the call.
minRangeValid == call.op = "minVersion" /\ ret.range # Null

\* C14: for every valid range that some version satisfies, minVersion
\* returns a version that satisfies the range and no smaller version does.
C14_LowestSatisfying ==
  (minRangeValid /\ \E u \in minCandidates : Range_test(ret.range, u).value) =>
    /\ ~ret.result.threw
    /\ ret.result.value # Null
    /\ Range_test(ret.range, ret.result.value).value
    /\ \A u \in minCandidates :
         Range_test(ret.range, u).value => SemVer_compare(u, ret.result.value) >= 0

\* C15: minVersion returns a version or null for every range the Range
\* constructor accepts; it never raises on a valid range.
C15_NeverRaisesOnValid ==
  minRangeValid => ~ret.result.threw /\ ret.result.value.type \in {"SemVer", "null"}

(***************************************************************************)
(* maxSatisfying, minSatisfying: inputs, calls and properties              *)
(***************************************************************************)
\* v1.2.3 and 1.2.3+b compare equal.
satisfyingVersions == {"v1.2.3", "1.2.3+b", "1.0.0", "2.0.0", "1.2.3-alpha"}

SatisfyingMaxLen == 3

satisfyingLists == UNION {[1..n -> satisfyingVersions] : n \in 0..SatisfyingMaxLen}

satisfyingRangeStrings == {"^1.0.0", "*", "<1.0.0", "1.2.3-alpha || 2.x", "not a range"}

jsStrings(versions) == [i \in 1..Len(versions) |-> JStr(versions[i])]

\* maxSatisfying(versions, range)
MaxSatisfying ==
  /\ call = Idle
  /\ \E versions \in satisfyingLists, range \in satisfyingRangeStrings :
       /\ call' = [op |-> "maxSatisfying", versions |-> versions, range |-> range,
                   worse |-> -1]
       /\ ret' = maxSatisfying(jsStrings(versions), JStr(range), defaultOptions)

\* minSatisfying(versions, range)
MinSatisfying ==
  /\ call = Idle
  /\ \E versions \in satisfyingLists, range \in satisfyingRangeStrings :
       /\ call' = [op |-> "minSatisfying", versions |-> versions, range |-> range,
                   worse |-> 1]
       /\ ret' = minSatisfying(jsStrings(versions), JStr(range), defaultOptions)

NextSatisfying == MaxSatisfying \/ MinSatisfying \/ Return

SpecSatisfying == Init /\ [][NextSatisfying]_vars

\* The elements of the list that satisfy the range, by position.
satisfyingAt(versions, range) ==
  IF range.threw THEN {}
  ELSE {k \in 1..Len(versions) : Range_test(range.value, JStr(versions[k])).value}

\* The satisfying positions that no satisfying element beats: none compares
\* greater (worse = -1) or none compares less (worse = 1).
unbeaten(versions, sat, worse) ==
  {k \in sat : \A j \in sat :
     compare(JStr(versions[j]), JStr(versions[k]), defaultOptions).value # -worse}

\* What the claim gives: null without a satisfying element, else the
\* earliest unbeaten element.
selected(versions, sat, worse) ==
  IF sat = {} THEN Null ELSE JStr(versions[Min(unbeaten(versions, sat, worse))])

\* C16: maxSatisfying returns a satisfying element that no other satisfying
\* element compares greater than, the earliest of the list on ties, and
\* null exactly when no element satisfies the range or the range is
\* invalid; minSatisfying likewise with less for greater.
C16_BestSatisfying ==
  call.op \in {"maxSatisfying", "minSatisfying"} =>
    /\ ~ret.threw
    /\ ret.value = selected(call.versions,
                            satisfyingAt(call.versions,
                                         Range(JStr(call.range), defaultOptions)),
                            call.worse)

\* Of 1.0.0, v1.2.3, 1.2.3+b under ^1.0.0 the maximum is v1.2.3, the first
\* of the two that compare equal.
C16_Witness ==
  /\ call.op = "maxSatisfying" /\ call.range = "^1.0.0"
  /\ call.versions = <<"1.0.0", "v1.2.3", "1.2.3+b">>
  /\ ret.value = JStr("v1.2.3")

(***************************************************************************)
(* outside: inputs, calls and properties                                   *)
(***************************************************************************)
outsideVersions ==
  {"0.0.0", "0.5.0-alpha", "0.9.0", "1.0.0", "1.2.3-alpha", "1.2.3", "1.5.0",
   "2.0.0", "3.0.0"}

outsideTokens == {"<1.0.0", ">1.0.0", ">=1.2.3", "<=1.5.0", "1.2.3", "*", "^1.2.3"}

outsideRanges ==
  outsideTokens
    \cup {a \o " " \o b : a \in outsideTokens, b \in outsideTokens}
    \cup {a \o " || " \o b : a \in outsideTokens, b \in outsideTokens}

\* gtr(version, range) and ltr(version, range)
Outside ==
  /\ call = Idle
  /\ \E version \in outsideVersions, range \in outsideRanges, hilo \in {">", "<"} :
       /\ call' = [op |-> "outside", version |-> version, range |-> range,
                   hilo |-> hilo]
       /\ ret' = IF hilo = ">" THEN gtr(JStr(version), JStr(range), defaultOptions)
                 ELSE ltr(JStr(version), JStr(range), defaultOptions)

\* outside with a hilo that is neither.
OutsideHilo ==
  /\ call = Idle
  /\ \E version \in outsideVersions, hilo \in {"", ">=", "=="} :
       /\ call' = [op |-> "outsideHilo", version |-> version, range |-> "*",
                   hilo |-> hilo]
       /\ ret' = outside(JStr(version), JStr("*"), hilo, defaultOptions)

\* satisfies, gtr and ltr of one version and one range.
OutsideBoth ==
  /\ call = Idle
  /\ \E version \in outsideVersions, range \in outsideRanges :
       /\ call' = [op |-> "satisfies gtr ltr", version |-> version, range |-> range]
       /\ ret' = [satisfies |-> satisfies(JStr(version), JStr(range), defaultOptions),
                  gtr |-> gtr(JStr(version), JStr(range), defaultOptions),
                  ltr |-> ltr(JStr(version), JStr(range), defaultOptions)]

NextOutside == Outside \/ OutsideHilo \/ OutsideBoth \/ Return

SpecOutside == Init /\ [][NextOutside]_vars

\* The versions of the inputs that satisfy the range of the call.
outsideSatisfying ==
  {u \in outsideVersions : satisfies(JStr(u), JStr(call.range), defaultOptions).value}

\* C17, the direction from the result to the order: when gtr returns true
\* the version is strictly greater than every version that satisfies the
\* range, and when ltr returns true it is strictly less than every one.
C17_OutsideIsBeyond ==
  (call.op = "outside" /\ ret = Ret(TRUE)) =>
    \A u \in outsideSatisfying :
      compare(JStr(call.version), JStr(u), defaultOptions).value
        = (IF call.hilo = ">" THEN 1 ELSE -1)

\* C29: for a range that some version satisfies and any version v, at most
\* one of satisfies(v, R), gtr(v, R) and ltr(v, R) is true: gtr and ltr are
\* false when v satisfies R, and they are never both true.
C29_MutuallyExclusive ==
  (call.op = "satisfies gtr ltr" /\ outsideSatisfying # {}) =>
    /\ ~ret.satisfies.threw /\ ~ret.gtr.threw /\ ~ret.ltr.threw
    /\ ret.satisfies.value => (~ret.gtr.value /\ ~ret.ltr.value)
    /\ ~(ret.gtr.value /\ ret.ltr.value)

(***************************************************************************)
(* Calls on objects: inputs, calls and properties.  The operations that    *)
(* assign to fields of objects are SemVer.inc (on its receiver) and        *)
(* minVersion (on compver, line 979); inc and minVersion are called here   *)
(* on a SemVer object and on a Range object, which the result of the call  *)
(* carries as the call leaves them.  compare, compareBuild, cmp, the test  *)
(* and intersects methods, satisfies, maxSatisfying, minSatisfying and     *)
(* outside only rebind their own parameters and locals (lines 200-201,     *)
(* 555-557, 653-655, 935-936, 1031-1032, 1067-1075); they are functions of *)
(* their arguments above.                                                  *)
(***************************************************************************)
\* The Range objects of the valid ranges of minVersion.
minRangeObjects ==
  {Range(JStr(r), defaultOptions).value :
     r \in {s \in minRanges : ~Range(JStr(s), defaultOptions).threw}}

\* minVersion(range) of a Range object
MinVersionOfRange ==
  /\ call = Idle
  /\ \E range \in minRangeObjects :
       /\ call' = [op |-> "minVersionOfRange", range |-> range]
       /\ ret' = minVersion(range, defaultOptions)

NextObjects == Inc \/ MinVersionOfRange \/ Return

SpecObjects == Init /\ [][NextObjects]_vars

\* C20: the top-level inc leaves the SemVer object passed to it unchanged,
\* and minVersion leaves the Range object passed to it unchanged, the
\* semver objects of its comparators included.
C20_InputsUnchanged ==
  /\ call.op = "inc" => heapKept
  /\ call.op = "minVersionOfRange" => ret.range = call.range

\* minVersion of the Range object of ">1.2.3 <2.0.0" returns 1.2.4 and the
\* comparator of the Range still holds 1.2.3.
C20_Witness ==
  /\ call.op = "minVersionOfRange" /\ call.range.raw = ">1.2.3 <2.0.0"
  /\ ~ret.result.threw /\ ret.result.value.version = "1.2.4"
  /\ ret.range.set[1][1].semver.version = "1.2.3"
  /\ ret.range.set[1][1].semver.patch = 3
====
